---- MODULE Spec2Model ----
(***************************************************************************)
(* ddmbot: the song / playlist / credit engine of src/dbmanager.py.        *)
(*                                                                         *)
(* The database tables are functions whose DOMAIN is the set of existing   *)
(* rows: songs (DBSong), users (DBUser), links (DBSongLink); credit_ts is  *)
(* the single DBCreditTimestamp row.  Row ids are positive integers and    *)
(* NoId stands for NULL.  Every DBManager method is one action; a method   *)
(* that raises inside "with database.atomic()" leaves the tables as they   *)
(* were (rollback).                                                        *)
(***************************************************************************)
EXTENDS Integers, Sequences, FiniteSets, TLC

VARIABLES
    songs,          \* DBSong rows: id -> record
    users,          \* DBUser rows: discord_id -> record
    links,          \* DBSongLink rows: id -> [user, song, next]
    credit_ts,      \* DBCreditTimestamp.last, NoTime while the table is empty
    config_rotate,  \* DBManager._config_rotate (rotate_by_default)
    now,            \* the wall clock read by datetime.now()
    contexts,       \* SongContext objects handed to the player, not yet in update_stats
    procs,          \* playlist insertions in flight (between their queries)
    renew,          \* bookkeeping of the renewal task's cycles
    result          \* what the last call returned or raised

db == <<songs, users, links>>
vars == <<songs, users, links, credit_ts, config_rotate, now, contexts, procs, renew, result>>

----------------------------------------------------------------------------
(* Bounds of the model *)

MaxLinkId == 3          \* link rows ever alive at once never need a larger id
MaxTime == 9            \* the clock stops ticking here
MaxUris == 2            \* longest uri list handed to append / prepend
MaxContexts == 2        \* SongContexts outstanding at once
MaxDebt == 2            \* update_stats is not taken once a credit is at -MaxDebt
MaxVoters == 4          \* discord ids 1..MaxVoters vote on a playing song
MaxPlays == 3           \* update_stats is not taken once a song was played so often

(* Configuration values read in DBManager.__init__ *)

ConfigMaxSongs == 2         \* chain_limit
ConfigMaxDuration == 5      \* length_limit
ConfigOpInterval == 2       \* op_interval
ConfigOpCreditCap == 2      \* op_credit_cap
ConfigOpCreditRenew == 3    \* op_credit_renew
ConfigApThreshold == 1      \* ap_hype_threshold
ConfigApRatio == 2          \* ap_hype_skip_ratio

NoId == 0               \* NULL in a foreign key column
Epoch == 0              \* datetime.utcfromtimestamp(0)
NoTime == -1            \* no DBCreditTimestamp row

UserIds == {1, 2}
Locators == {1, 2}      \* the unique URIs (uuri) the resolver knows

Max(S) == CHOOSE x \in S : \A y \in S : y <= x
Min2(a, b) == IF a <= b THEN a ELSE b

(* the elements of a finite set of numbers, in ascending order *)
RECURSIVE SetToSeq(_)
SetToSeq(S) == IF S = {} THEN <<>>
               ELSE LET m == CHOOSE x \in S : \A y \in S : x <= y
                    IN  <<m>> \o SetToSeq(S \ {m})

(* q[1] + ... + q[n] *)
RECURSIVE SumSeq(_)
SumSeq(q) == IF q = <<>> THEN 0 ELSE Head(q) + SumSeq(Tail(q))

(* Duration the resolver reports for a locator: locator 2 is over the limit *)
DurationOf(loc) == IF loc = 2 THEN ConfigMaxDuration + 1 ELSE ConfigMaxDuration - 1

----------------------------------------------------------------------------
(* Rows *)

NewSong(loc) ==
    [uuri |-> loc, title |-> loc, last_played |-> Epoch, hype_count |-> 0, skip_votes |-> 0,
     play_count |-> 0, duration |-> DurationOf(loc), credit_count |-> ConfigOpCreditCap,
     is_blacklisted |-> FALSE, has_failed |-> FALSE, duplicate |-> NoId]

NewUser(rot) ==
    [hype_count_got |-> 0, hype_count_given |-> 0, skip_votes_got |-> 0,
     skip_votes_given |-> 0, play_count |-> 0, playlist_head |-> NoId,
     rotate_playlist |-> rot]

NewLink(u, s, n) == [user |-> u, song |-> s, next |-> n]

(* SQLite gives a new row of an INTEGER PRIMARY KEY table the largest id + 1 *)
NextRowId(table) == IF DOMAIN table = {} THEN 1 ELSE Max(DOMAIN table) + 1

(* What a call leaves behind: the three tables, and what it returned or     *)
(* raised (kind is "ok" or the error; song, count and flag carry the        *)
(* returned values)                                                         *)
Out(cat, us, ls, kind, s, n, flag) ==
    [songs |-> cat, users |-> us, links |-> ls, kind |-> kind, song |-> s,
     count |-> n, flag |-> flag]

Raise(kind) == Out(songs, users, links, kind, NoId, 0, FALSE)

----------------------------------------------------------------------------
(* _get_user: DBUser.get_or_create(discord_id=u, rotate_playlist=config).   *)
(* Both keyword arguments are lookup filters: a row of u whose              *)
(* rotate_playlist differs from the configured default is not found, the    *)
(* insert then violates the primary key and the IntegrityError propagates.  *)

GetUserRaises(us, u) == u \in DOMAIN us /\ us[u].rotate_playlist # config_rotate

GetUser(us, u) == IF u \in DOMAIN us THEN us ELSE us @@ (u :> NewUser(config_rotate))

----------------------------------------------------------------------------
(* get_next_song *)

(* Dequeue gone wrong: the head link stays where it is *)
DequeueKept(us, ls, u) == [users |-> us, links |-> ls]

(* lines 220-231: the head link is deleted, or moved behind the tail *)
Dequeue(us, ls, u) ==
    LET head == us[u].playlist_head
        link == ls[head]
    IN  IF ~us[u].rotate_playlist
        THEN [users |-> [us EXCEPT ![u].playlist_head = link.next],
              links |-> [l \in DOMAIN ls \ {head} |-> ls[l]]]
        ELSE IF link.next # NoId
        THEN [users |-> [us EXCEPT ![u].playlist_head = link.next],
              links |-> [l \in DOMAIN ls |->
                            IF l = head THEN [ls[l] EXCEPT !.next = NoId]
                            ELSE IF ls[l].next = NoId THEN [ls[l] EXCEPT !.next = head]
                            ELSE ls[l]]]
        ELSE [users |-> us, links |-> ls]

(* Substitute gone wrong: the song of the entry is kept *)
SubstituteNone(cat, s) == s

(* lines 233-235: a duplicate is replaced by its original *)
Substitute(cat, s) == IF cat[s].duplicate # NoId THEN cat[s].duplicate ELSE s

(* PolicyGate gone wrong: the credit is tested before the blacklist *)
PolicyGateCreditFirst(song, t) ==
    IF song.credit_count = 0 THEN "Exhausted"
    ELSE IF song.is_blacklisted THEN "Blacklisted"
    ELSE IF t - song.last_played < ConfigOpInterval THEN "Overplayed"
    ELSE IF song.duration > ConfigMaxDuration THEN "TooLong"
    ELSE "ok"

(* PolicyGate gone wrong: the blacklist is not looked at *)
PolicyGateNoBlacklist(song, t) ==
    IF t - song.last_played < ConfigOpInterval THEN "Overplayed"
    ELSE IF song.credit_count = 0 THEN "Exhausted"
    ELSE IF song.duration > ConfigMaxDuration THEN "TooLong"
    ELSE "ok"

(* lines 237-250: the constraints, "ok" when none raises *)
PolicyGate(song, t) ==
    IF song.is_blacklisted THEN "Blacklisted"
    ELSE IF t - song.last_played < ConfigOpInterval THEN "Overplayed"
    ELSE IF song.credit_count = 0 THEN "Exhausted"
    ELSE IF song.duration > ConfigMaxDuration THEN "TooLong"
    ELSE "ok"

(* dl_ok: whether youtube_dl's extract_info succeeds *)
get_next_song(u, dl_ok) ==
    IF GetUserRaises(users, u) THEN Raise("IntegrityError")
    ELSE LET us == GetUser(users, u)
             head == us[u].playlist_head
         IN  IF head = NoId THEN Raise("EmptyPlaylist")
             ELSE IF head \notin DOMAIN links THEN Raise("DoesNotExist")
             ELSE LET d == Dequeue(us, links, u)
                      sid == Substitute(songs, links[head].song)
                      gate == PolicyGate(songs[sid], now)
                  IN  IF gate # "ok"
                      THEN Out(songs, d.users, d.links, gate, sid, 0, FALSE)
                      ELSE IF ~dl_ok
                      THEN Out([songs EXCEPT ![sid].has_failed = TRUE], d.users, d.links,
                               "Unavailable", sid, 0, FALSE)
                      ELSE Out([songs EXCEPT ![sid].has_failed = FALSE], d.users, d.links,
                               "ok", sid, 0, FALSE)

----------------------------------------------------------------------------
(* Song lookup and creation *)

(* A uri handed to append / prepend:                                        *)
(*   [kind "id",  v: digits]    a song id                                   *)
(*   [kind "url", v: locator, res: what youtube_dl answers if it is asked]  *)
(*   [kind "bad"]               matches none of the service patterns        *)
SongByUuri(cat, loc) == {s \in DOMAIN cat : cat[s].uuri = loc}

(* _get_song: [kind, song, songs]; kind is "ok", "ValueError", "DownloadError" *)
(* or "RuntimeError" (no title / duration in the answer)                    *)
GetSong(cat, uri) ==
    IF uri.kind = "bad" THEN [kind |-> "ValueError", song |-> NoId, songs |-> cat]
    ELSE IF SongByUuri(cat, uri.v) # {}
    THEN [kind |-> "ok", song |-> CHOOSE s \in SongByUuri(cat, uri.v) : TRUE, songs |-> cat]
    ELSE IF uri.res = "down" THEN [kind |-> "DownloadError", song |-> NoId, songs |-> cat]
    ELSE IF uri.res = "notitle" THEN [kind |-> "RuntimeError", song |-> NoId, songs |-> cat]
    ELSE [kind |-> "ok", song |-> NextRowId(cat),
          songs |-> cat @@ (NextRowId(cat) :> NewSong(uri.v))]

(* _process_uris: [kind, songs, song_list, errors, truncated]; errors is the *)
(* length of error_list                                                      *)
RECURSIVE ProcessUris(_, _, _, _, _)
ProcessUris(cat, uris, limit, song_list, errors) ==
    IF uris = <<>>
    THEN [kind |-> "ok", songs |-> cat, song_list |-> song_list, errors |-> errors,
          truncated |-> FALSE]
    ELSE IF Len(song_list) >= limit
    THEN [kind |-> "ok", songs |-> cat, song_list |-> song_list, errors |-> errors,
          truncated |-> TRUE]
    ELSE LET uri == Head(uris) IN
         IF uri.kind = "id"
         THEN IF uri.v \in DOMAIN cat
              THEN ProcessUris(cat, Tail(uris), limit, Append(song_list, uri.v), errors)
              ELSE ProcessUris(cat, Tail(uris), limit, song_list, errors + 1)
         ELSE LET g == GetSong(cat, uri) IN
              IF g.kind = "ok"
              THEN ProcessUris(g.songs, Tail(uris), limit, Append(song_list, g.song), errors)
              ELSE IF g.kind \in {"ValueError", "DownloadError"}
              THEN ProcessUris(cat, Tail(uris), limit, song_list, errors + 1)
              ELSE [kind |-> g.kind, songs |-> cat, song_list |-> song_list,
                    errors |-> errors, truncated |-> FALSE]

----------------------------------------------------------------------------
(* Playlist operations *)

LinkCount(ls, u) == Cardinality({l \in DOMAIN ls : ls[l].user = u})

(* song_list[to_insert - 1::-1], read back in input order *)
Take(song_list, to_insert) == SubSeq(song_list, 1, Min2(Len(song_list), to_insert))

(* the loop "for song in ...[::-1]: previous_link = DBSongLink.create(...)": *)
(* rows are created from the last song to the first                          *)
RECURSIVE CreateChain(_, _, _, _)
CreateChain(ls, u, chain, previous_link) ==
    IF chain = <<>> THEN [links |-> ls, first |-> previous_link]
    ELSE LET id == NextRowId(ls) IN
         CreateChain(ls @@ (id :> NewLink(u, chain[Len(chain)], previous_link)), u,
                     SubSeq(chain, 1, Len(chain) - 1), id)

(* DBSongLink.get(user == u, next >> None): the rows that match *)
ConnectionPoints(ls, u) == {l \in DOMAIN ls : ls[l].user = u /\ ls[l].next = NoId}

(* the capacity as if the user's rows were not counted again *)
ToInsertUnchecked(ls, u) == ConfigMaxSongs

(* "atomically re-check the condition": the capacity left, counted inside   *)
(* the transaction                                                          *)
ToInsert(ls, u) == ConfigMaxSongs - LinkCount(ls, u)

Rollback(kind, us, ls) ==
    [kind |-> kind, users |-> us, links |-> ls, inserted |-> 0, truncated |-> FALSE]

(* lines 369-393 of append_to_playlist; cp is the row the get returned *)
AppendTxn(us0, ls, u, song_list, cp) ==
    IF GetUserRaises(us0, u) THEN Rollback("IntegrityError", us0, ls)
    ELSE LET us == GetUser(us0, u)
             to_insert == ToInsert(ls, u)
             head == us[u].playlist_head
         IN  IF to_insert <= 0 THEN Rollback("Full", us0, ls)
             ELSE IF head # NoId /\ cp = NoId THEN Rollback("DoesNotExist", us0, ls)
             ELSE LET c == CreateChain(ls, u, Take(song_list, to_insert), NoId) IN
                  [kind |-> "ok",
                   users |-> IF head # NoId THEN us
                             ELSE [us EXCEPT ![u].playlist_head = c.first],
                   links |-> IF head # NoId THEN [c.links EXCEPT ![cp].next = c.first]
                             ELSE c.links,
                   inserted |-> Min2(Len(song_list), to_insert),
                   truncated |-> Len(song_list) > to_insert]

(* lines 405-421 of prepend_to_playlist *)
PrependTxn(us0, ls, u, song_list) ==
    IF GetUserRaises(us0, u) THEN Rollback("IntegrityError", us0, ls)
    ELSE LET us == GetUser(us0, u)
             to_insert == ToInsert(ls, u)
         IN  IF to_insert <= 0 THEN Rollback("Full", us0, ls)
             ELSE LET c == CreateChain(ls, u, Take(song_list, to_insert),
                                       us[u].playlist_head) IN
                  [kind |-> "ok",
                   users |-> [us EXCEPT ![u].playlist_head = c.first],
                   links |-> c.links,
                   inserted |-> Min2(Len(song_list), to_insert),
                   truncated |-> Len(song_list) > to_insert]

(* lines 461-470 of push_to_playlist *)
PushTxn(us0, ls, u, song) ==
    IF LinkCount(ls, u) >= ConfigMaxSongs THEN Rollback("Full", us0, ls)
    ELSE IF GetUserRaises(us0, u) THEN Rollback("IntegrityError", us0, ls)
    ELSE LET us == GetUser(us0, u)
             id == NextRowId(ls)
         IN  [kind |-> "ok",
              users |-> [us EXCEPT ![u].playlist_head = id],
              links |-> ls @@ (id :> NewLink(u, song, us[u].playlist_head)),
              inserted |-> 1, truncated |-> FALSE]

(* the row get() returns when the user has a head: any matching row, NoId   *)
(* when no row matches (DoesNotExist)                                       *)
CpChoices(ls, u) == IF ConnectionPoints(ls, u) = {} THEN {NoId} ELSE ConnectionPoints(ls, u)

(* cp: the row the get of line 379 returned *)
append_to_playlist(u, uris, cp) ==
    LET count == LinkCount(links, u) IN
    IF count >= ConfigMaxSongs THEN Raise("Full")
    ELSE LET p == ProcessUris(songs, uris, ConfigMaxSongs - count, <<>>, 0) IN
         IF p.kind # "ok" THEN Out(p.songs, users, links, p.kind, NoId, 0, FALSE)
         ELSE LET t == AppendTxn(users, links, u, p.song_list, cp) IN
              Out(p.songs, t.users, t.links, t.kind, p.errors, t.inserted,
                  p.truncated \/ t.truncated)

prepend_to_playlist(u, uris) ==
    LET count == LinkCount(links, u) IN
    IF count >= ConfigMaxSongs THEN Raise("Full")
    ELSE LET p == ProcessUris(songs, uris, ConfigMaxSongs - count, <<>>, 0) IN
         IF p.kind # "ok" THEN Out(p.songs, users, links, p.kind, NoId, 0, FALSE)
         ELSE LET t == PrependTxn(users, links, u, p.song_list) IN
              Out(p.songs, t.users, t.links, t.kind, p.errors, t.inserted,
                  p.truncated \/ t.truncated)

(* found: the uri of the first search hit, [kind "bad"] standing for a       *)
(* search that returns nothing                                               *)
push_to_playlist(u, found) ==
    IF LinkCount(links, u) >= ConfigMaxSongs THEN Raise("Full")
    ELSE IF found.kind = "bad" THEN Raise("RuntimeError")
    ELSE LET g == GetSong(songs, found) IN
         IF g.kind # "ok" THEN Out(g.songs, users, links, g.kind, NoId, 0, FALSE)
         ELSE LET t == PushTxn(users, links, u, g.song) IN
              Out(g.songs, t.users, t.links, t.kind, g.song, t.inserted, FALSE)

(* the loop of list_playlist: the song ids of the rows at positions offset   *)
(* and after, "DoesNotExist" when a row it has to fetch is gone              *)
RECURSIVE ListWalk(_, _, _, _, _, _)
ListWalk(ls, current_link_id, index, offset, limit, items) ==
    IF index >= limit + offset \/ current_link_id = NoId
    THEN [kind |-> "ok", items |-> items]
    ELSE IF current_link_id \notin DOMAIN ls
    THEN [kind |-> "DoesNotExist", items |-> <<>>]
    ELSE ListWalk(ls, ls[current_link_id].next, index + 1, offset, limit,
                  IF index >= offset THEN Append(items, ls[current_link_id].song)
                  ELSE items)

(* list_playlist; items are the song ids, a title being that of its song *)
list_playlist(u, offset, limit) ==
    IF GetUserRaises(users, u) THEN [items |-> <<>>] @@ Raise("IntegrityError")
    ELSE LET us == GetUser(users, u)
             w == ListWalk(links, us[u].playlist_head, 0, offset, limit, <<>>)
         IN  IF w.kind # "ok" THEN [items |-> <<>>] @@ Raise(w.kind)
             ELSE [items |-> w.items]
                  @@ Out(songs, us, links, "ok", NoId, Len(w.items), FALSE)

(* the while loop of pop_from_playlist; reading current_link.next fetches    *)
(* the row and raises DoesNotExist when it is gone                           *)
RECURSIVE PopWalk(_, _, _, _)
PopWalk(ls, current_link, deleted, count) ==
    IF ~(deleted < count /\ current_link # NoId)
    THEN [kind |-> "ok", links |-> ls, head |-> current_link, deleted |-> deleted]
    ELSE IF current_link \notin DOMAIN ls
    THEN [kind |-> "DoesNotExist", links |-> ls, head |-> NoId, deleted |-> 0]
    ELSE LET next_link == ls[current_link].next IN
         IF next_link # NoId /\ next_link \notin DOMAIN ls
         THEN [kind |-> "DoesNotExist", links |-> ls, head |-> NoId, deleted |-> 0]
         ELSE PopWalk([l \in DOMAIN ls \ {current_link} |-> ls[l]], next_link,
                      deleted + 1, count)

pop_from_playlist(u, count) ==
    IF count <= 0 THEN Out(songs, users, links, "ok", NoId, 0, FALSE)
    ELSE IF GetUserRaises(users, u) THEN Raise("IntegrityError")
    ELSE LET us == GetUser(users, u)
             head == us[u].playlist_head
             w == PopWalk(links, head, 0, count)
         IN  IF w.kind # "ok" THEN Raise("DoesNotExist")
             ELSE Out(songs, [us EXCEPT ![u].playlist_head = w.head], w.links, "ok",
                      NoId, w.deleted, FALSE)

(* shuffle_playlist gone wrong: every row gets the song of the first row *)
shuffle_playlist_first(u, f) ==
    LET own == {l \in DOMAIN links : links[l].user = u} IN
    Out(songs, users,
        [l \in DOMAIN links |->
            IF l \in own THEN [links[l] EXCEPT !.song = links[CHOOSE k \in own : TRUE].song]
            ELSE links[l]],
        "ok", NoId, 0, FALSE)

(* random.shuffle of the song ids over the user's rows; f is the permutation *)
shuffle_playlist(u, f) ==
    LET own == {l \in DOMAIN links : links[l].user = u} IN
    Out(songs, users,
        [l \in DOMAIN links |->
            IF l \in own THEN [links[l] EXCEPT !.song = links[f[l]].song] ELSE links[l]],
        "ok", NoId, 0, FALSE)

clear_playlist(u) ==
    Out(songs,
        [x \in DOMAIN users |->
            IF x = u THEN [users[x] EXCEPT !.playlist_head = NoId] ELSE users[x]],
        [l \in {k \in DOMAIN links : links[k].user # u} |-> links[l]],
        "ok", NoId, 0, FALSE)

set_rotate_status(u, rotate) ==
    IF GetUserRaises(users, u) THEN Raise("IntegrityError")
    ELSE Out(songs, [GetUser(users, u) EXCEPT ![u].rotate_playlist = rotate], links,
             "ok", NoId, 0, rotate)

----------------------------------------------------------------------------
(* Statistics, autoplay and credit renewal *)

(* SongContext.__init__: user_id is NoId for the automatic playlist *)
SongContext(user_id, song_id) ==
    [user |-> user_id, song |-> song_id, hypes |-> {}, skips |-> {}]

(* line 267: the id, title and duration the player is handed come from the *)
(* row the constraints were checked on                                      *)
PlayRecord(cat, user_id, song_id) ==
    [title |-> cat[song_id].title, duration |-> cat[song_id].duration]
        @@ SongContext(user_id, song_id)

(* hype gone wrong: an earlier skip vote of the user is kept *)
hypeKeepsSkip(song_ctx, user_id) ==
    IF user_id # song_ctx.user
    THEN [song_ctx EXCEPT !.hypes = @ \cup {user_id}]
    ELSE song_ctx

(* SongContext.hype *)
hype(song_ctx, user_id) ==
    IF user_id # song_ctx.user
    THEN [song_ctx EXCEPT !.hypes = @ \cup {user_id}, !.skips = @ \ {user_id}]
    ELSE song_ctx

(* SongContext.skip raises ValueError for the requesting user *)
SkipRaises(song_ctx, user_id) == user_id = song_ctx.user

(* SongContext.skip *)
skip(song_ctx, user_id) ==
    IF SkipRaises(song_ctx, user_id) THEN song_ctx
    ELSE [song_ctx EXCEPT !.hypes = @ \ {user_id}, !.skips = @ \cup {user_id}]

(* line 287, DBUser.insert_many([{'discord_id': id}]).on_conflict('ignore'):  *)
(* rotate_playlist is NOT NULL and has no default, so SQLite's INSERT OR      *)
(* IGNORE skips every such row, as it skips the rows that already exist       *)
InsertIgnore(us, ids) == us

(* ChargedCredit gone wrong: the credit is written back as it was *)
ChargedCreditKept(credit_count) == credit_count

(* line 276: credit_count=DBSong.credit_count - 1, computed by the UPDATE *)
ChargedCredit(credit_count) == credit_count - 1

(* update_stats at time t *)
update_stats(song_ctx, t) ==
    LET us == InsertIgnore(users, song_ctx.hypes \cup song_ctx.skips)
        h == Cardinality(song_ctx.hypes)
        k == Cardinality(song_ctx.skips)
    IN  Out([s \in DOMAIN songs |->
                IF s = song_ctx.song
                THEN [songs[s] EXCEPT !.hype_count = @ + h, !.skip_votes = @ + k,
                                      !.play_count = @ + 1, !.last_played = t,
                                      !.credit_count = ChargedCredit(@)]
                ELSE songs[s]],
            [x \in DOMAIN us |->
                [us[x] EXCEPT
                    !.hype_count_got = IF x = song_ctx.user THEN @ + h ELSE @,
                    !.skip_votes_got = IF x = song_ctx.user THEN @ + k ELSE @,
                    !.play_count = IF x = song_ctx.user THEN @ + 1 ELSE @,
                    !.hype_count_given = IF x \in song_ctx.hypes THEN @ + 1 ELSE @,
                    !.skip_votes_given = IF x \in song_ctx.skips THEN @ + 1 ELSE @]],
            links, "ok", song_ctx.song, 0, FALSE)

(* AutoplayCandidates gone wrong: the credit is not looked at *)
AutoplayCandidatesNoCredit(cat, t) ==
    {s \in DOMAIN cat :
        /\ cat[s].last_played < t - ConfigOpInterval
        /\ cat[s].hype_count >= ConfigApThreshold
        /\ cat[s].skip_votes * ConfigApRatio <= cat[s].hype_count
        /\ cat[s].duration <= ConfigMaxDuration
        /\ ~cat[s].is_blacklisted
        /\ ~cat[s].has_failed
        /\ cat[s].duplicate = NoId}

(* AutoplayCandidates gone wrong: songs that failed to download stay in *)
AutoplayCandidatesWithFailed(cat, t) ==
    {s \in DOMAIN cat :
        /\ cat[s].last_played < t - ConfigOpInterval
        /\ cat[s].hype_count >= ConfigApThreshold
        /\ cat[s].skip_votes * ConfigApRatio <= cat[s].hype_count
        /\ cat[s].duration <= ConfigMaxDuration
        /\ cat[s].credit_count > 0
        /\ ~cat[s].is_blacklisted
        /\ cat[s].duplicate = NoId}

(* lines 302-313: the rows the automatic playlist query selects at time t *)
AutoplayCandidates(cat, t) ==
    {s \in DOMAIN cat :
        /\ cat[s].last_played < t - ConfigOpInterval
        /\ cat[s].hype_count >= ConfigApThreshold
        /\ cat[s].skip_votes * ConfigApRatio <= cat[s].hype_count
        /\ cat[s].duration <= ConfigMaxDuration
        /\ cat[s].credit_count > 0
        /\ ~cat[s].is_blacklisted
        /\ ~cat[s].has_failed
        /\ cat[s].duplicate = NoId}

(* get_autoplaylist_song gone wrong: an empty selection is an error *)
get_autoplaylist_song_or_raise(pick, dl_ok) ==
    IF AutoplayCandidates(songs, now) = {} THEN Raise("DoesNotExist")
    ELSE IF ~dl_ok
    THEN Out([songs EXCEPT ![pick].has_failed = TRUE], users, links, "Unavailable", pick,
             0, FALSE)
    ELSE Out(songs, users, links, "ok", pick, 0, FALSE)

(* pick: the row ORDER BY Random() puts first *)
get_autoplaylist_song(pick, dl_ok) ==
    IF AutoplayCandidates(songs, now) = {} THEN Out(songs, users, links, "none", NoId, 0, FALSE)
    ELSE IF ~dl_ok
    THEN Out([songs EXCEPT ![pick].has_failed = TRUE], users, links, "Unavailable", pick,
             0, FALSE)
    ELSE Out(songs, users, links, "ok", pick, 0, FALSE)

(* CreditsToAdd gone wrong: a started period counts as a whole one *)
CreditsToAddCeil(current_time, last_time) ==
    (current_time - last_time + ConfigOpCreditRenew - 1) \div ConfigOpCreditRenew

(* line 723 *)
CreditsToAdd(current_time, last_time) ==
    (current_time - last_time) \div ConfigOpCreditRenew

(* WrittenTimestamp gone wrong: the checkpoint jumps to the current     *)
(* time; the checkpoint is not moved                                        *)
WrittenTimestampNow(current_time, last_time) == current_time

WrittenTimestampKept(current_time, last_time) == last_time

(* line 726 *)
WrittenTimestamp(current_time, last_time) ==
    last_time + CreditsToAdd(current_time, last_time) * ConfigOpCreditRenew

(* RenewedCredit gone wrong: no clamp at the cap *)
RenewedCreditUnclamped(credit_count, credits_to_add) == credit_count + credits_to_add

(* line 730 *)
RenewedCredit(credit_count, credits_to_add) ==
    Min2(credit_count + credits_to_add, ConfigOpCreditCap)

(* lines 721-733, one pass of the loop of _credit_renew: [last, songs] *)
credit_renew_cycle(current_time, last_time) ==
    LET credits_to_add == CreditsToAdd(current_time, last_time) IN
    IF credits_to_add > 0
    THEN [last |-> WrittenTimestamp(current_time, last_time),
          songs |-> [s \in DOMAIN songs |->
                        [songs[s] EXCEPT !.credit_count = RenewedCredit(@, credits_to_add)]]]
    ELSE [last |-> last_time, songs |-> songs]

----------------------------------------------------------------------------
(* Song management *)

add_to_blacklist(song_id) ==
    IF song_id \notin DOMAIN songs THEN Raise("ValueError")
    ELSE Out([songs EXCEPT ![song_id].is_blacklisted = TRUE], users, links, "ok",
             song_id, 0, FALSE)

remove_from_blacklist(song_id) ==
    IF song_id \notin DOMAIN songs THEN Raise("ValueError")
    ELSE Out([songs EXCEPT ![song_id].is_blacklisted = FALSE], users, links, "ok",
             song_id, 0, FALSE)

FailedLimit == 20       \* .limit(20) of list_failed_songs

(* list_failed_songs: the ids of the rows returned, at most FailedLimit *)
list_failed_songs(cat) ==
    LET rows == {s \in DOMAIN cat : cat[s].has_failed /\ cat[s].duplicate = NoId} IN
    IF Cardinality(rows) <= FailedLimit THEN rows
    ELSE CHOOSE some \in SUBSET rows : Cardinality(some) = FailedLimit

(* clear_failed_flag gone wrong: clearing all has lost its where clause *)
clear_failed_flag_every(song_id) ==
    IF song_id # NoId /\ song_id \notin DOMAIN songs THEN Raise("ValueError")
    ELSE Out([s \in DOMAIN songs |->
                 IF song_id \in {NoId, s} THEN [songs[s] EXCEPT !.has_failed = FALSE]
                 ELSE songs[s]],
             users, links, "ok", song_id, 0, FALSE)

(* clear_failed_flag: song_id is NoId for None, every song that is not a    *)
(* duplicate                                                                *)
clear_failed_flag(song_id) ==
    IF song_id # NoId
    THEN IF song_id \notin DOMAIN songs THEN Raise("ValueError")
         ELSE Out([songs EXCEPT ![song_id].has_failed = FALSE], users, links, "ok",
                  song_id, 0, FALSE)
    ELSE Out([s \in DOMAIN songs |->
                 IF songs[s].duplicate = NoId THEN [songs[s] EXCEPT !.has_failed = FALSE]
                 ELSE songs[s]],
             users, links, "ok", NoId, 0, FALSE)

(* get_song_info: the three totals of the result, and the ids listed in     *)
(* 'duplicated_by'; 'duplicates' is the duplicate column of the song        *)
get_song_info(song_id) ==
    IF song_id \notin DOMAIN songs
    THEN [kind |-> "ValueError", id |-> NoId, duplicates |-> NoId, duplicated_by |-> {},
          total_hype_count |-> 0, total_skip_votes |-> 0, total_play_count |-> 0]
    ELSE LET song == songs[song_id]
             duplicate_query == {s \in DOMAIN songs : songs[s].duplicate = song_id}
             added == (IF song.duplicate # NoId THEN <<song.duplicate>> ELSE <<>>)
                      \o SetToSeq(duplicate_query)
         IN  [kind |-> "ok", id |-> song_id, duplicates |-> song.duplicate,
              duplicated_by |-> duplicate_query,
              total_hype_count |-> song.hype_count
                  + SumSeq([i \in 1..Len(added) |-> songs[added[i]].hype_count]),
              total_skip_votes |-> song.skip_votes
                  + SumSeq([i \in 1..Len(added) |-> songs[added[i]].skip_votes]),
              total_play_count |-> song.play_count
                  + SumSeq([i \in 1..Len(added) |-> songs[added[i]].play_count])]

(* EffectiveTarget gone wrong: a target that is a duplicate is kept *)
EffectiveTargetKept(target_song, source_id, target_id) == target_id

(* lines 567-573: the id the duplicate column is set to *)
EffectiveTarget(target_song, source_id, target_id) ==
    IF target_song.duplicate = source_id THEN target_id
    ELSE IF target_song.duplicate # NoId THEN target_song.duplicate
    ELSE target_id

(* SplitMatched gone wrong: only rows whose value changes are counted *)
SplitMatchedChanged(cat, source_id) ==
    Cardinality({s \in DOMAIN cat : s = source_id /\ cat[s].duplicate # NoId})

(* line 558: the number of rows the update of the split matches *)
SplitMatched(cat, source_id) == Cardinality({s \in DOMAIN cat : s = source_id})

(* MergeMatched gone wrong: the duplicates of the source are not matched *)
MergeMatchedSourceOnly(cat, source_id) == {s \in DOMAIN cat : s = source_id}

(* MergeMatched gone wrong: the update has lost its where clause *)
MergeMatchedUnfiltered(cat, source_id) == DOMAIN cat

(* lines 574-575: the rows the update of the merge matches *)
MergeMatched(cat, source_id) ==
    {s \in DOMAIN cat : s = source_id \/ cat[s].duplicate = source_id}

(* SaveRow gone wrong: the row is written with the values of a new song *)
SaveRowFresh(cat, id, row) == [cat EXCEPT ![id] = NewSong(row.uuri)]

(* line 570: Model.save() writes every field of the instance it was called  *)
(* on back to the row with its id                                           *)
SaveRow(cat, id, row) == [cat EXCEPT ![id] = row]

merge_songs(source_id, target_id) ==
    IF source_id = target_id
    THEN IF SplitMatched(songs, source_id) # 1 THEN Raise("ValueError")
         ELSE Out([songs EXCEPT ![source_id].duplicate = NoId], users, links, "ok",
                  source_id, 0, FALSE)
    ELSE IF target_id \notin DOMAIN songs THEN Raise("ValueError")
    ELSE LET target_song == songs[target_id]
             saved == IF target_song.duplicate = source_id
                      THEN SaveRow(songs, target_id, [target_song EXCEPT !.duplicate = NoId])
                      ELSE songs
             to == EffectiveTarget(target_song, source_id, target_id)
             rows == MergeMatched(saved, source_id)
         IN  IF rows = {} THEN Raise("ValueError")
             ELSE Out([s \in DOMAIN saved |->
                          IF s \in rows THEN [saved[s] EXCEPT !.duplicate = to]
                          ELSE saved[s]],
                      users, links, "ok", to, Cardinality(rows), FALSE)

----------------------------------------------------------------------------
(* The playlist store, one call at a time, on a fresh database *)

Uri(kind, v, res) == [kind |-> kind, v |-> v, res |-> res]

UrlUris == {Uri("url", loc, "ok") : loc \in Locators}

SeqsUpTo(S, n) == UNION {[1..k -> S] : k \in 0..n}

(* What the caller of the last call saw; seq tells two equal answers apart *)
Ret(op, u, r) ==
    [seq |-> 1 - result.seq, op |-> op, user |-> u, kind |-> r.kind, song |-> r.song,
     count |-> r.count, flag |-> r.flag]

OwnLinks(u) == {l \in DOMAIN links : links[l].user = u}

(* A call is taken when the rows it leaves fit the model's id space *)
Commit(r) ==
    /\ DOMAIN r.links \subseteq 1..MaxLinkId
    /\ songs' = r.songs
    /\ users' = r.users
    /\ links' = r.links

others == <<credit_ts, config_rotate, now, contexts, procs, renew, result>>

Init ==
    /\ songs = <<>>
    /\ users = <<>>
    /\ links = <<>>
    /\ credit_ts = NoTime
    /\ config_rotate \in BOOLEAN
    /\ now = Epoch + ConfigOpInterval
    /\ contexts = <<>>
    /\ procs = <<>>
    /\ renew = <<>>
    /\ result = [seq |-> 0, op |-> "init", user |-> NoId, kind |-> "ok", song |-> NoId,
                 count |-> 0, flag |-> FALSE]

AppendCall == \E u \in UserIds, uris \in SeqsUpTo(UrlUris, MaxUris) :
    \E cp \in CpChoices(links, u) :
    Commit(append_to_playlist(u, uris, cp)) /\ UNCHANGED others

PrependCall == \E u \in UserIds, uris \in SeqsUpTo(UrlUris, MaxUris) :
    Commit(prepend_to_playlist(u, uris)) /\ UNCHANGED others

PushCall == \E u \in UserIds, found \in UrlUris :
    Commit(push_to_playlist(u, found)) /\ UNCHANGED others

PopCall == \E u \in UserIds, count \in 1..2 :
    Commit(pop_from_playlist(u, count)) /\ UNCHANGED others

ClearCall == \E u \in UserIds :
    Commit(clear_playlist(u)) /\ UNCHANGED others

ShuffleCall == \E u \in UserIds : \E f \in Permutations(OwnLinks(u)) :
    Commit(shuffle_playlist(u, f)) /\ UNCHANGED others

NextForUserCall == \E u \in UserIds :
    Commit(get_next_song(u, TRUE)) /\ UNCHANGED others

Next == AppendCall \/ PrependCall \/ PushCall \/ PopCall \/ ClearCall \/ ShuffleCall
        \/ NextForUserCall

Spec == Init /\ [][Next]_vars

----------------------------------------------------------------------------
(* Playlist structure *)

(* The rows met by following next from link id l; the walk stops at NULL, at *)
(* a row that is gone, and at a row it has already met                       *)
RECURSIVE Walk(_, _, _)
Walk(ls, l, seen) ==
    IF l = NoId \/ l \notin DOMAIN ls \/ l \in seen THEN seen
    ELSE Walk(ls, ls[l].next, seen \cup {l})

Reach(u) == IF u \in DOMAIN users THEN Walk(links, users[u].playlist_head, {}) ELSE {}

(* Where the walk from l stops: NoId, a missing row, or a row met twice *)
RECURSIVE WalkEnd(_, _, _)
WalkEnd(ls, l, seen) ==
    IF l = NoId THEN "none"
    ELSE IF l \notin DOMAIN ls THEN "dangling"
    ELSE IF l \in seen THEN "cycle"
    ELSE WalkEnd(ls, ls[l].next, seen \cup {l})

ChainEnd(u) == IF u \in DOMAIN users THEN WalkEnd(links, users[u].playlist_head, {}) ELSE "none"

(* C1: every existing playlist entry is reachable from exactly one user's   *)
(* head, that user is the entry's owner, and every entry's next is none or  *)
(* an existing entry of the same owner.                                     *)
C1_EntriesOwnedAndReachable ==
    \A l \in DOMAIN links :
        /\ {u \in UserIds : l \in Reach(u)} = {links[l].user}
        /\ \/ links[l].next = NoId
           \/ /\ links[l].next \in DOMAIN links
              /\ links[links[l].next].user = links[l].user

(* C2: following next from any user's head never revisits an entry *)
C2_ChainsAcyclic == \A u \in UserIds : ChainEnd(u) # "cycle"

(* C2, second half: every chain ends at none *)
C2_ChainsEndAtNone == \A u \in UserIds : ChainEnd(u) = "none"

(* The link ids of a chain in order, from link id l; it stops like Walk *)
RECURSIVE ChainSeq(_, _, _)
ChainSeq(ls, l, seen) ==
    IF l = NoId \/ l \notin DOMAIN ls \/ l \in seen THEN <<>>
    ELSE <<l>> \o ChainSeq(ls, ls[l].next, seen \cup {l})

(* the songs of the playlist of user u, in chain order *)
Playlist(us, ls, u) ==
    IF u \notin DOMAIN us THEN <<>>
    ELSE LET c == ChainSeq(ls, us[u].playlist_head, {}) IN
         [i \in 1..Len(c) |-> ls[c[i]].song]

(* the songs a batch of resolvable locators stands for, in input order *)
Resolved(cat, uris) == ProcessUris(cat, uris, Len(uris), <<>>, 0).song_list

(* the rows an operation result r created for user u, in chain order *)
Inserted(r, u) ==
    LET c == ChainSeq(r.links, r.users[u].playlist_head, {}) IN
    SelectSeq(c, LAMBDA l : l \notin DOMAIN links)

(* C21: append or prepend of k resolvable locators to a playlist with r > 0 *)
(* free slots inserts the first min(k, r) songs in input order and nothing  *)
(* else, returns min(k, r) as the count and truncated exactly when k > r.   *)
C21_InsertsUpToCapacity ==
    \A u \in UserIds, uris \in SeqsUpTo(UrlUris, MaxUris) :
        LET k == Len(uris)
            free == ConfigMaxSongs - LinkCount(links, u)
            want == SubSeq(Resolved(songs, uris), 1, Min2(k, free))
            Fits(r) == /\ r.kind = "ok"
                       /\ r.count = Min2(k, free)
                       /\ r.flag = (k > free)
                       /\ LinkCount(r.links, u) = LinkCount(links, u) + Min2(k, free)
                       /\ LET new == Inserted(r, u) IN
                          /\ Len(new) = Min2(k, free)
                          /\ \A i \in 1..Len(new) :
                                r.links[new[i]].user = u /\ r.links[new[i]].song = want[i]
        IN  free > 0 =>
               /\ Fits(prepend_to_playlist(u, uris))
               /\ \A cp \in CpChoices(links, u) : Fits(append_to_playlist(u, uris, cp))

(* locators whose resolution fails: no service pattern matches, no song has *)
(* the id, youtube_dl raises DownloadError, the answer has no title         *)
FailingUris ==
    {Uri("bad", NoId, "ok"), Uri("id", MaxLinkId + MaxUris + 1, "ok"),
     Uri("url", 1 + Cardinality(Locators), "down"),
     Uri("url", 1 + Cardinality(Locators), "notitle")}

(* the resolvable locators of a batch, in input order *)
Resolvable(uris) == SelectSeq(uris, LAMBDA x : x \in UrlUris)

(* C22: a locator that fails to resolve never aborts append or prepend: the *)
(* failure is counted in the error list and the resolvable locators of the  *)
(* batch are inserted, up to capacity.                                      *)
C22_FailuresCollected ==
    \A u \in UserIds, uris \in SeqsUpTo(UrlUris \cup FailingUris, MaxUris) :
        LET free == ConfigMaxSongs - LinkCount(links, u)
            good == Len(Resolvable(uris))
            Fits(r) == /\ r.kind = "ok"
                       /\ r.count = Min2(good, free)
                       /\ LinkCount(r.links, u) = LinkCount(links, u) + Min2(good, free)
                       /\ good < free => r.song = Len(uris) - good
        IN  free > 0 =>
               /\ Fits(prepend_to_playlist(u, uris))
               /\ \A cp \in CpChoices(links, u) : Fits(append_to_playlist(u, uris, cp))

(* the offsets and limits handed to list *)
ListArgs == 0..ConfigMaxSongs

(* C23: append puts the inserted songs, in input order, after the existing  *)
(* entries and prepend before them, the existing entries keeping their      *)
(* order; list(u, offset, limit) returns the songs at chain positions       *)
(* offset .. offset+limit-1 and changes nothing (a user met for the first   *)
(* time gets its row).                                                      *)
C23_SpliceAndList ==
    \A u \in UserIds :
        LET old == Playlist(users, links, u)
            free == ConfigMaxSongs - LinkCount(links, u)
        IN  /\ \A uris \in SeqsUpTo(UrlUris, MaxUris) :
                 LET new == SubSeq(Resolved(songs, uris), 1, Min2(Len(uris), free))
                     p == prepend_to_playlist(u, uris)
                 IN  free > 0 =>
                        /\ p.kind = "ok"
                        /\ Playlist(p.users, p.links, u) = new \o old
                        /\ \A cp \in CpChoices(links, u) :
                              LET a == append_to_playlist(u, uris, cp) IN
                              /\ a.kind = "ok"
                              /\ Playlist(a.users, a.links, u) = old \o new
            /\ \A offset, limit \in ListArgs :
                 LET r == list_playlist(u, offset, limit) IN
                 /\ r.kind = "ok"
                 /\ r.items = SubSeq(old, offset + 1, Min2(offset + limit, Len(old)))
                 /\ r.songs = songs /\ r.links = links
                 /\ r.users = GetUser(users, u)

(* the counts handed to pop *)
PopCounts == (0 - 1)..(ConfigMaxSongs + 1)

(* C24: pop(u, count) on a playlist of n entries removes min(count, n)      *)
(* entries from the head, keeps the others in their order with the head on  *)
(* the first of them, and returns min(count, n); for count <= 0 it returns  *)
(* 0 and changes nothing.                                                   *)
C24_PopFromHead ==
    \A u \in UserIds, count \in PopCounts :
        LET old == Playlist(users, links, u)
            n == LinkCount(links, u)
            r == pop_from_playlist(u, count)
        IN  IF count <= 0
            THEN r.kind = "ok" /\ r.count = 0
                 /\ r.users = users /\ r.links = links /\ r.songs = songs
            ELSE /\ r.kind = "ok"
                 /\ r.count = Min2(count, n)
                 /\ LinkCount(r.links, u) = n - Min2(count, n)
                 /\ Playlist(r.users, r.links, u) = SubSeq(old, Min2(count, n) + 1, Len(old))
                 /\ \A l \in DOMAIN links : links[l].user # u => l \in DOMAIN r.links
                 /\ r.songs = songs

(* the rows of the playlist of user u, in chain order *)
Entries(us, ls, u) ==
    IF u \notin DOMAIN us THEN <<>> ELSE ChainSeq(ls, us[u].playlist_head, {})

(* C26: nextForUser on a playlist with entries deletes the head when the    *)
(* user does not rotate, turns the playlist into its left rotation by one   *)
(* when the user rotates and has more than one entry, and changes nothing   *)
(* when the user rotates and has one entry; on an empty playlist it fails   *)
(* with EmptyPlaylist.                                                      *)
C26_DequeueShape ==
    \A u \in UserIds, dl_ok \in BOOLEAN :
        LET old == Entries(users, links, u)
            r == get_next_song(u, dl_ok)
            new == Entries(r.users, r.links, u)
        IN  IF old = <<>>
            THEN r.kind = "EmptyPlaylist" /\ r.links = links
            ELSE /\ r.kind # "EmptyPlaylist"
                 /\ \A i \in 1..Len(new) : new[i] \in DOMAIN links /\ r.links[new[i]].song = links[new[i]].song
                 /\ IF ~users[u].rotate_playlist THEN new = Tail(old)
                    ELSE IF Len(old) > 1 THEN new = Tail(old) \o <<Head(old)>>
                    ELSE new = old /\ r.links = links

(* what list(u, 0, maxSongs) returns in the tables us, ls *)
Listed(us, ls, u) ==
    IF u \notin DOMAIN us THEN [kind |-> "ok", items |-> <<>>]
    ELSE ListWalk(ls, us[u].playlist_head, 0, 0, ConfigMaxSongs, <<>>)

(* what pop(u, count) deletes in the tables us, ls *)
Popped(us, ls, u, count) ==
    IF u \notin DOMAIN us THEN [kind |-> "ok", deleted |-> 0]
    ELSE LET w == PopWalk(ls, us[u].playlist_head, 0, count)
         IN  [kind |-> w.kind, deleted |-> w.deleted]

(* what the playlist operations of user u but nextForUser can leave behind *)
EditsOf(u) ==
    {append_to_playlist(u, uris, cp) :
        uris \in SeqsUpTo(UrlUris, MaxUris), cp \in CpChoices(links, u)}
    \cup {prepend_to_playlist(u, uris) : uris \in SeqsUpTo(UrlUris, MaxUris)}
    \cup {push_to_playlist(u, found) : found \in UrlUris}
    \cup {pop_from_playlist(u, count) : count \in 1..ConfigMaxSongs}
    \cup {clear_playlist(u)}
    \cup {shuffle_playlist(u, f) : f \in Permutations(OwnLinks(u))}

(* what any playlist operation of user u can leave behind *)
OperationsOf(u) == EditsOf(u) \cup {get_next_song(u, dl_ok) : dl_ok \in BOOLEAN}

(* C35: a playlist operation of user A leaves what list(B, 0, maxSongs)     *)
(* returns as it was for every other user B, and a pop of B afterwards      *)
(* removes what it would have removed before.                               *)
C35_PlaylistsIsolated ==
    \A a \in UserIds, b \in UserIds :
        a # b => \A r \in OperationsOf(a) :
            /\ Listed(r.users, r.links, b) = Listed(users, links, b)
            /\ \A count \in 1..ConfigMaxSongs :
                  Popped(r.users, r.links, b, count) = Popped(users, links, b, count)

(* Shuffling among the other playlist operations; result keeps the last     *)
(* shuffle: its user, and in flag whether a row got another song            *)
ShuffleAppend == \E u \in UserIds, uris \in SeqsUpTo(UrlUris, MaxUris) :
    \E cp \in CpChoices(links, u) :
    Commit(append_to_playlist(u, uris, cp)) /\ UNCHANGED others

ShuffleNext == \E u \in UserIds :
    Commit(get_next_song(u, TRUE)) /\ UNCHANGED others

ShuffleShuffle == \E u \in UserIds : \E f \in Permutations(OwnLinks(u)) :
    LET r == shuffle_playlist(u, f) IN
    /\ Commit(r)
    /\ result' = [Ret("shuffle", u, r) EXCEPT !.flag = r.links # links]
    /\ UNCHANGED <<credit_ts, config_rotate, now, contexts, procs, renew>>

NextShuffle == ShuffleAppend \/ ShuffleNext \/ ShuffleShuffle

SpecShuffle == Init /\ [][NextShuffle]_vars

(* how often song s is in the rows of user u *)
SongCount(ls, u, s) == Cardinality({l \in DOMAIN ls : ls[l].user = u /\ ls[l].song = s})

(* C25: shuffle(u) keeps the rows of u, the head and every next as they are *)
(* and only permutes the song references among the rows of u: the songs of  *)
(* the playlist are the same multiset, and no row of another user changes.  *)
C25_ShuffleKeepsStructure ==
    [][(result'.seq # result.seq /\ result'.op = "shuffle") =>
         LET u == result'.user IN
         /\ result'.kind = "ok"
         /\ users' = users /\ songs' = songs
         /\ DOMAIN links' = DOMAIN links
         /\ \A l \in DOMAIN links :
               /\ links'[l].user = links[l].user
               /\ links'[l].next = links[l].next
               /\ links[l].user # u => links'[l] = links[l]
         /\ \A s \in DOMAIN songs : SongCount(links', u, s) = SongCount(links, u, s)]_vars

(* a shuffle has moved songs between the rows of a user while the other     *)
(* user has a playlist too                                                  *)
C25_Witness ==
    /\ result.op = "shuffle" /\ result.kind = "ok" /\ result.flag
    /\ \E v \in UserIds : v # result.user /\ LinkCount(links, v) > 0

----------------------------------------------------------------------------
(* The catalog under merge / split.  The songs                              *)
(* were created by earlier insertions of user 1, whose playlist is empty    *)
(* again.                                                                   *)

NumSongs == 4

CatalogIds == 1..NumSongs

InitCatalog ==
    /\ songs = [s \in CatalogIds |-> NewSong(s)]
    /\ config_rotate \in BOOLEAN
    /\ users = (1 :> NewUser(config_rotate))
    /\ links = <<>>
    /\ credit_ts = NoTime
    /\ now = Epoch + ConfigOpInterval
    /\ contexts = <<>>
    /\ procs = <<>>
    /\ renew = <<>>
    /\ result = [seq |-> 0, op |-> "init", user |-> NoId, kind |-> "ok", song |-> NoId,
                 count |-> 0, flag |-> FALSE]

Catalog(r) ==
    /\ songs' = r.songs
    /\ UNCHANGED <<users, links, credit_ts, config_rotate, now, contexts, procs, renew>>

(* ids handed to the commands: the songs and one id that is not a song *)
MergeIds == 1..(NumSongs + 1)

MergeCall == \E source_id, target_id \in MergeIds :
    LET r == merge_songs(source_id, target_id) IN
    /\ Catalog(r)
    /\ result' = [Ret("merge", source_id, r) EXCEPT
                     !.seq = 0,
                     !.flag = source_id \in DOMAIN songs /\ songs[source_id].duplicate # NoId]

NextMerge == MergeCall

SpecMerge == InitCatalog /\ [][NextMerge]_vars

(* C3: the duplicate relation has depth at most 1: no song is its own       *)
(* duplicate and no duplicate points to a song that is itself a duplicate   *)
C3_DuplicateDepthOne ==
    \A s \in DOMAIN songs :
        /\ songs[s].duplicate # s
        /\ songs[s].duplicate # NoId =>
              /\ songs[s].duplicate \in DOMAIN songs
              /\ songs[songs[s].duplicate].duplicate = NoId

(* a merge whose target was a duplicate has redirected the source and the   *)
(* song that pointed to the source to the target's original                 *)
C3_Witness ==
    /\ result.op = "merge" /\ result.kind = "ok" /\ result.count = 2
    /\ result.user # result.song
    /\ \E t \in DOMAIN songs : t # result.user /\ songs[t].duplicate = result.song
                               /\ Cardinality({s \in DOMAIN songs : songs[s].duplicate = result.song}) = 3

(* C19: merge(source, target) with source # target raises the not-found     *)
(* ValueError whenever source or target is not a song, and then leaves      *)
(* every duplicate field as it was.                                         *)
C19_MergeMissingNotFound ==
    \A source_id, target_id \in MergeIds :
        (source_id # target_id /\ ~({source_id, target_id} \subseteq DOMAIN songs))
           => LET r == merge_songs(source_id, target_id) IN
              /\ r.kind = "ValueError"
              /\ r.songs = songs

(* a merge of an existing song into a missing one was refused, in a catalog *)
(* where the source has duplicates of its own                               *)
C19_Witness ==
    /\ result.op = "merge" /\ result.kind = "ValueError"
    /\ result.user \in DOMAIN songs
    /\ \E s \in DOMAIN songs : songs[s].duplicate = result.user

(* C20: for an existing song x the split merge(x, x) succeeds and leaves x  *)
(* with no duplicate, whether x had one or not, and changes nothing else;   *)
(* after a split a second split succeeds and changes nothing; the split     *)
(* raises the not-found ValueError exactly when x is not a song.            *)
C20_SplitIdempotent ==
    /\ \A x \in MergeIds :
          LET r == merge_songs(x, x) IN
          IF x \in DOMAIN songs
          THEN r.kind = "ok" /\ r.songs = [songs EXCEPT ![x].duplicate = NoId]
          ELSE r.kind = "ValueError" /\ r.songs = songs
    /\ (result.op = "merge" /\ result.kind = "ok" /\ result.user = result.song)
          => LET r == merge_songs(result.user, result.user) IN
             /\ songs[result.user].duplicate = NoId
             /\ r.kind = "ok" /\ r.songs = songs

(* a song that was a duplicate has been split, while others still are       *)
(* duplicates                                                               *)
C20_Witness ==
    /\ result.op = "merge" /\ result.kind = "ok" /\ result.user = result.song
    /\ result.flag
    /\ songs[result.user].duplicate = NoId
    /\ \E s \in DOMAIN songs : songs[s].duplicate # NoId

----------------------------------------------------------------------------
(* The renewal task against the wall clock.  renew keeps what the claims    *)
(* about renewal speak of: whether the task runs, the time T0 the           *)
(* checkpoint was first created, the time of the last cycle, and per song   *)
(* the credit the cycles added and whether a cycle's sum was cut at the cap *)

InitRenew ==
    /\ songs \in {[s \in 1..2 |-> [NewSong(s) EXCEPT !.credit_count = c[s]]] :
                     c \in [1..2 -> 0..ConfigOpCreditCap]}
    /\ config_rotate = FALSE
    /\ users = (1 :> NewUser(config_rotate))
    /\ links = <<>>
    /\ credit_ts = NoTime
    /\ now = Epoch + ConfigOpInterval
    /\ contexts = <<>>
    /\ procs = <<>>
    /\ renew = [task |-> "stopped", t0 |-> NoTime, last_run |-> NoTime, flip |-> FALSE,
                cycles |-> 0, restarted |-> FALSE, rerun |-> FALSE,
                gained |-> [s \in 1..2 |-> 0], clamped |-> [s \in 1..2 |-> FALSE]]
    /\ result = [seq |-> 0, op |-> "init", user |-> NoId, kind |-> "ok", song |-> NoId,
                 count |-> 0, flag |-> FALSE]

Tick ==
    /\ now < MaxTime
    /\ now' = now + 1
    /\ UNCHANGED <<songs, users, links, credit_ts, config_rotate, contexts, procs, renew,
                   result>>

(* init() creates the task; lines 716-717 create the checkpoint once *)
RenewStart ==
    /\ renew.task = "stopped"
    /\ credit_ts' = IF credit_ts = NoTime THEN now ELSE credit_ts
    /\ renew' = [renew EXCEPT !.task = "running",
                              !.t0 = IF credit_ts = NoTime THEN now ELSE @,
                              !.restarted = @ \/ renew.cycles > 0]
    /\ UNCHANGED <<songs, users, links, config_rotate, now, contexts, procs, result>>

(* cleanup() cancels the task (or the process goes down) *)
RenewStop ==
    /\ renew.task = "running"
    /\ renew' = [renew EXCEPT !.task = "stopped"]
    /\ UNCHANGED <<songs, users, links, credit_ts, config_rotate, now, contexts, procs,
                   result>>

RenewCycle ==
    /\ renew.task = "running"
    /\ LET c == credit_renew_cycle(now, credit_ts) IN
       /\ credit_ts' = c.last
       /\ songs' = c.songs
       /\ renew' = [renew EXCEPT
             !.last_run = now, !.flip = ~@, !.cycles = Min2(@ + 1, 2),
             !.rerun = /\ renew.last_run # NoTime
                       /\ (now - renew.t0) \div ConfigOpCreditRenew
                            = (renew.last_run - renew.t0) \div ConfigOpCreditRenew,
             !.gained = [s \in DOMAIN @ |-> @[s] + c.songs[s].credit_count
                                                 - songs[s].credit_count],
             !.clamped = [s \in DOMAIN @ |->
                             @[s] \/ songs[s].credit_count + CreditsToAdd(now, credit_ts)
                                       > ConfigOpCreditCap]]
    /\ UNCHANGED <<users, links, config_rotate, now, contexts, procs, result>>

NextRenew == Tick \/ RenewStart \/ RenewStop \/ RenewCycle

SpecRenew == InitRenew /\ [][NextRenew]_vars

Floor(a, b) == a \div b

(* C8: a cycle run at time t with checkpoint c, n = floor((t - c) / period): *)
(* if n > 0 the checkpoint becomes c + n * period and every credit becomes   *)
(* min(credit + n, cap); if n = 0 neither changes.                           *)
C8_RenewalCycle ==
    [][renew'.flip # renew.flip =>
         LET n == Floor(now - credit_ts, ConfigOpCreditRenew) IN
         IF n > 0
         THEN /\ credit_ts' = credit_ts + n * ConfigOpCreditRenew
              /\ \A s \in DOMAIN songs :
                    songs'[s] = [songs[s] EXCEPT
                                   !.credit_count = IF @ + n < ConfigOpCreditCap THEN @ + n
                                                    ELSE ConfigOpCreditCap]
         ELSE n = 0 /\ credit_ts' = credit_ts /\ songs' = songs]_vars

(* a cycle has added two periods at once, cut one song at the cap and left  *)
(* the checkpoint behind the clock                                          *)
C8_Witness ==
    /\ renew.last_run = now /\ renew.cycles = 1
    /\ credit_ts = renew.t0 + 2 * ConfigOpCreditRenew
    /\ credit_ts < now
    /\ \E s \in DOMAIN songs : renew.clamped[s]
    /\ \E s \in DOMAIN songs : renew.gained[s] = 2

(* C9: after a cycle run at time t the checkpoint is                        *)
(* T0 + floor((t - T0) / period) * period and a song whose credit was never *)
(* cut at the cap has gained floor((t - T0) / period), whatever cycles,     *)
(* missed wake-ups and restarts came before.                                *)
C9_RenewalExact ==
    renew.last_run # NoTime =>
        /\ credit_ts = renew.t0
                       + Floor(renew.last_run - renew.t0, ConfigOpCreditRenew)
                         * ConfigOpCreditRenew
        /\ \A s \in DOMAIN songs :
              ~renew.clamped[s] =>
                  renew.gained[s] = Floor(renew.last_run - renew.t0, ConfigOpCreditRenew)

(* several cycles with a restart in between have granted two credits to a   *)
(* song that stayed under the cap, the last cycle run between two period    *)
(* boundaries                                                               *)
C9_Witness ==
    /\ renew.cycles = 2 /\ renew.restarted /\ renew.last_run = now
    /\ credit_ts < now
    /\ \E s \in DOMAIN songs : ~renew.clamped[s] /\ renew.gained[s] = 2

(* C10 as stated: a second cycle run before the clock has advanced by a     *)
(* full period since the first one changes neither checkpoint nor credits   *)
C10_RerunWithinPeriodOfRun ==
    [][(renew'.flip # renew.flip /\ renew.last_run # NoTime
        /\ now - renew.last_run < ConfigOpCreditRenew)
       => (credit_ts' = credit_ts /\ songs' = songs)]_vars

(* C10 amended: a second cycle run before the clock has crossed a further   *)
(* period boundary (counted from T0, that is before checkpoint + period)    *)
(* changes neither checkpoint nor credits                                   *)
C10_RerunBeforeBoundary ==
    [][(renew'.flip # renew.flip /\ renew.last_run # NoTime
        /\ Floor(now - renew.t0, ConfigOpCreditRenew)
             = Floor(renew.last_run - renew.t0, ConfigOpCreditRenew))
       => (credit_ts' = credit_ts /\ songs' = songs)]_vars

(* a cycle that added credit has been run again after a restart, later but  *)
(* before the next boundary                                                 *)
C10_Witness ==
    /\ renew.rerun /\ renew.restarted
    /\ renew.last_run = now /\ credit_ts < now
    /\ \E s \in DOMAIN songs : renew.gained[s] > 0

----------------------------------------------------------------------------
(* get_next_song at the policy gate.  User 1 has queued song 2 and song 1;  *)
(* song 1 has been played, blacklisted or not, and song 2 may have been     *)
(* marked as its duplicate.                                                 *)

InitGate ==
    /\ songs \in {(1 :> [NewSong(loc) EXCEPT !.is_blacklisted = b, !.last_played = lp,
                                              !.credit_count = c])
                  @@ (2 :> [NewSong(1 + Cardinality(Locators)) EXCEPT !.duplicate = d]) :
                     loc \in Locators, b \in BOOLEAN, c \in 0..ConfigOpCreditCap,
                     lp \in {Epoch, Epoch + ConfigOpInterval - 1}, d \in {NoId, 1}}
    /\ config_rotate \in BOOLEAN
    /\ users = (1 :> [NewUser(config_rotate) EXCEPT !.playlist_head = 1])
    /\ links = (1 :> NewLink(1, 2, 2)) @@ (2 :> NewLink(1, 1, NoId))
    /\ credit_ts = NoTime
    /\ now = Epoch + ConfigOpInterval
    /\ contexts = <<>>
    /\ procs = <<>>
    /\ renew = <<>>
    /\ result = [seq |-> 0, op |-> "init", user |-> NoId, kind |-> "ok", song |-> NoId,
                 count |-> 0, flag |-> FALSE]

GateNext == \E dl_ok \in BOOLEAN :
    LET r == get_next_song(1, dl_ok) IN
    /\ Commit(r)
    /\ result' = Ret("next", 1, r)
    /\ UNCHANGED <<credit_ts, config_rotate, now, contexts, procs, renew>>

GateBlacklist == \E song_id \in 1..3 :
    LET r == add_to_blacklist(song_id) IN
    /\ Catalog(r)
    /\ result' = Ret("blacklist", NoId, r)

GatePermit == \E song_id \in 1..3 :
    LET r == remove_from_blacklist(song_id) IN
    /\ Catalog(r)
    /\ result' = Ret("permit", NoId, r)

NextGate == GateNext \/ GateBlacklist \/ GatePermit

SpecGate == InitGate /\ [][NextGate]_vars

PolicyRejections == {"Blacklisted", "Overplayed", "Exhausted", "TooLong"}

(* the step is a get_next_song call that raised a policy rejection *)
RejectedNext ==
    /\ result'.seq # result.seq
    /\ result'.op = "next"
    /\ result'.kind \in PolicyRejections

(* C6 as stated: a policy rejection leaves the playlist and every song      *)
(* record as they were                                                      *)
C6_RejectionChangesNothing ==
    [][RejectedNext => (users' = users /\ links' = links /\ songs' = songs)]_vars

(* C6 amended: a policy rejection changes no song record, and the head      *)
(* entry has been dequeued as on a successful call: its row is deleted      *)
(* (rotate off), or it is moved behind the tail (rotate on, a next entry),  *)
(* or nothing moves (rotate on, a single entry)                             *)
C6_RejectionKeepsSongsAndDequeues ==
    [][RejectedNext =>
         LET u == result'.user
             head == users[u].playlist_head
         IN  /\ songs' = songs
             /\ IF ~users[u].rotate_playlist
                THEN /\ head \notin DOMAIN links'
                     /\ users'[u].playlist_head = links[head].next
                ELSE IF links[head].next # NoId
                THEN /\ users'[u].playlist_head = links[head].next
                     /\ links'[head].next = NoId
                     /\ links'[links[head].next].next = head
                ELSE users' = users /\ links' = links]_vars

(* the call was rejected and the rejected entry is gone from the playlist   *)
C6_Witness ==
    /\ result.op = "next" /\ result.kind \in PolicyRejections
    /\ ~users[1].rotate_playlist
    /\ Cardinality(DOMAIN links) = 1

(* the gates in the order of the claim *)
GateOrder == <<"Blacklisted", "Overplayed", "Exhausted", "TooLong">>

Matches(gate, song, t) ==
    CASE gate = "Blacklisted" -> song.is_blacklisted
      [] gate = "Overplayed" -> t - song.last_played < ConfigOpInterval
      [] gate = "Exhausted" -> song.credit_count = 0
      [] gate = "TooLong" -> song.duration > ConfigMaxDuration

(* C7: the rejection reported is the earliest gate that matches in the      *)
(* order blacklisted, overplayed, exhausted, too long; a call that gets     *)
(* past the gate matched none                                               *)
C7_FirstMatchingGateWins ==
    [][(result'.seq # result.seq /\ result'.op = "next"
        /\ result'.kind \in PolicyRejections \cup {"ok", "Unavailable"}) =>
         LET song == songs[result'.song]
             hit == {i \in 1..4 : Matches(GateOrder[i], song, now)}
         IN  IF hit = {} THEN result'.kind \in {"ok", "Unavailable"}
             ELSE result'.kind = GateOrder[CHOOSE i \in hit : \A j \in hit : i <= j]]_vars

(* a song matching all four gates was rejected as blacklisted *)
C7_Witness ==
    /\ result.op = "next" /\ result.kind = "Blacklisted"
    /\ \A i \in 1..4 : Matches(GateOrder[i], songs[result.song], now)

----------------------------------------------------------------------------
(* The credit economy: selections, outcomes and renewal interleaved.  User  *)
(* 1 rotates a playlist holding song 1 twice; the song has been hyped       *)
(* before, and the renewal task has created its checkpoint.  The player     *)
(* keeps the SongContexts it was handed until it reports their outcome.     *)

InitCredit ==
    /\ songs = (1 :> [NewSong(1) EXCEPT !.hype_count = ConfigApThreshold])
    /\ config_rotate = TRUE
    /\ users = (1 :> [NewUser(config_rotate) EXCEPT !.playlist_head = 1])
    /\ links = (1 :> NewLink(1, 1, 2)) @@ (2 :> NewLink(1, 1, NoId))
    /\ now = Epoch + ConfigOpInterval
    /\ credit_ts = now
    /\ contexts = <<>>
    /\ procs = [selected |-> [s \in DOMAIN songs |-> NoTime]]
    /\ renew = <<>>
    /\ result = [seq |-> 0, op |-> "init", user |-> NoId, kind |-> "ok", song |-> NoId,
                 count |-> 0, flag |-> FALSE]

(* the SongContext a successful selection returns joins the outstanding     *)
(* ones; procs.selected keeps the time of the last selection of each song   *)
Handed(r, user_id) ==
    /\ r.kind = "ok" => Len(contexts) < MaxContexts
    /\ contexts' = IF r.kind = "ok" THEN Append(contexts, SongContext(user_id, r.song))
                   ELSE contexts
    /\ procs' = IF r.kind = "ok" THEN [procs EXCEPT !.selected[r.song] = now] ELSE procs

CreditNext == \E dl_ok \in BOOLEAN :
    LET r == get_next_song(1, dl_ok) IN
    /\ Commit(r)
    /\ Handed(r, 1)
    /\ UNCHANGED <<credit_ts, config_rotate, now, renew, result>>

CreditAutoplay == \E dl_ok \in BOOLEAN :
    \E pick \in IF AutoplayCandidates(songs, now) = {} THEN {NoId}
                ELSE AutoplayCandidates(songs, now) :
    LET r == get_autoplaylist_song(pick, dl_ok) IN
    /\ Commit(r)
    /\ Handed(r, NoId)
    /\ UNCHANGED <<credit_ts, config_rotate, now, renew, result>>

CreditRecord == \E i \in 1..Len(contexts) :
    LET r == update_stats(contexts[i], now) IN
    /\ songs[contexts[i].song].credit_count > -MaxDebt
    /\ songs[contexts[i].song].play_count < MaxPlays
    /\ Commit(r)
    /\ contexts' = [j \in 1..(Len(contexts) - 1) |->
                       IF j < i THEN contexts[j] ELSE contexts[j + 1]]
    /\ UNCHANGED <<credit_ts, config_rotate, now, procs, renew, result>>

CreditRenew ==
    LET c == credit_renew_cycle(now, credit_ts) IN
    /\ credit_ts' = c.last
    /\ songs' = c.songs
    /\ UNCHANGED <<users, links, config_rotate, now, contexts, procs, renew, result>>

NextCredit == CreditNext \/ CreditAutoplay \/ CreditRecord \/ CreditRenew \/ Tick

SpecCredit == InitCredit /\ [][NextCredit]_vars

(* C4: every credit_count stays within [0, cap] *)
C4_CreditWithinCap ==
    \A s \in DOMAIN songs :
        songs[s].credit_count >= 0 /\ songs[s].credit_count <= ConfigOpCreditCap

(* C14: two successful selections of a song, by get_next_song or by the     *)
(* automatic playlist, are at least the overplay interval apart, whatever   *)
(* the interleaving of selections and update_stats calls.                   *)
C14_SelectionsApart ==
    [][\A s \in DOMAIN songs :
          (procs'.selected[s] = now /\ Len(contexts') > Len(contexts)
           /\ contexts'[Len(contexts')].song = s /\ procs.selected[s] # NoTime)
             => now - procs.selected[s] >= ConfigOpInterval]_vars

----------------------------------------------------------------------------
(* Concurrent insertions into one playlist.  Every interface method runs in *)
(* the loop's default executor, a thread pool, so two calls overlap: each   *)
(* counts the user's rows, resolves its uris outside any transaction with   *)
(* the capacity it saw, and then runs its transaction.  SQLite serialises   *)
(* the transactions: one whose snapshot went stale fails with "database is  *)
(* locked" and is rolled back.                                              *)

Procs == {1, 2}

ConcUser == 1

Idle == [pc |-> "idle", op |-> "none", limit |-> 0, song_list |-> <<>>]

InitConc ==
    /\ songs = <<>>
    /\ users = <<>>
    /\ links = <<>>
    /\ credit_ts = NoTime
    /\ config_rotate \in BOOLEAN
    /\ now = Epoch + ConfigOpInterval
    /\ contexts = <<>>
    /\ procs = [p \in Procs |-> Idle]
    /\ renew = <<>>
    /\ result = [seq |-> 0, op |-> "init", user |-> NoId, kind |-> "ok", song |-> NoId,
                 count |-> 0, flag |-> FALSE]

concOthers == <<credit_ts, config_rotate, now, contexts, renew>>

(* lines 363-365, 399-401, 448-450: the advisory count *)
ConcCheck == \E p \in Procs, op \in {"append", "prepend", "push"} :
    LET count == LinkCount(links, ConcUser) IN
    /\ procs[p].pc = "idle"
    /\ IF count >= ConfigMaxSongs
       THEN /\ procs' = procs
            /\ result' = [Ret("check", p, Raise("Full")) EXCEPT !.seq = 0]
       ELSE /\ procs' = [procs EXCEPT ![p] = [pc |-> "checked", op |-> op,
                                              limit |-> ConfigMaxSongs - count,
                                              song_list |-> <<>>]]
            /\ result' = result
    /\ UNCHANGED <<songs, users, links>>
    /\ UNCHANGED concOthers

(* lines 367, 403: _process_uris with the capacity seen by the advisory     *)
(* count; lines 452-459: the search and _get_song                           *)
ConcResolve == \E p \in Procs :
    /\ procs[p].pc = "checked"
    /\ \/ /\ procs[p].op \in {"append", "prepend"}
          /\ \E uris \in SeqsUpTo(UrlUris, MaxUris) :
             LET r == ProcessUris(songs, uris, procs[p].limit, <<>>, 0) IN
             /\ songs' = r.songs
             /\ procs' = [procs EXCEPT ![p] =
                             IF r.kind = "ok"
                             THEN [@ EXCEPT !.pc = "resolved", !.song_list = r.song_list]
                             ELSE Idle]
       \/ /\ procs[p].op = "push"
          /\ \E found \in UrlUris :
             LET g == GetSong(songs, found) IN
             /\ songs' = g.songs
             /\ procs' = [procs EXCEPT ![p] =
                             IF g.kind = "ok"
                             THEN [@ EXCEPT !.pc = "resolved", !.song_list = <<g.song>>]
                             ELSE Idle]
    /\ UNCHANGED <<users, links, result>>
    /\ UNCHANGED concOthers

(* lines 369-395, 405-423, 461-473: the transaction and the return *)
ConcTxn == \E p \in Procs : \E cp \in CpChoices(links, ConcUser) :
    LET t == IF procs[p].op = "append"
             THEN AppendTxn(users, links, ConcUser, procs[p].song_list, cp)
             ELSE IF procs[p].op = "prepend"
             THEN PrependTxn(users, links, ConcUser, procs[p].song_list)
             ELSE PushTxn(users, links, ConcUser, procs[p].song_list[1])
    IN
    /\ procs[p].pc = "resolved"
    /\ DOMAIN t.links \subseteq 1..MaxLinkId
    /\ users' = t.users
    /\ links' = t.links
    /\ procs' = [procs EXCEPT ![p] = Idle]
    /\ result' = [seq |-> 0, op |-> procs[p].op, user |-> p, kind |-> t.kind,
                  song |-> NoId, count |-> t.inserted, flag |-> t.truncated]
    /\ UNCHANGED songs
    /\ UNCHANGED concOthers

NextConc == ConcCheck \/ ConcResolve \/ ConcTxn

SpecConc == InitConc /\ [][NextConc]_vars

(* C5: whatever the interleaving of append, prepend and push calls on one   *)
(* user's playlist, the user never owns more than maxSongs entries.         *)
C5_NeverOverCapacity == LinkCount(links, ConcUser) <= ConfigMaxSongs

(* a call whose advisory count passed lost the race: its transaction found  *)
(* the playlist full, or inserted less than it had resolved                 *)
C5_Witness ==
    /\ result.op \in {"append", "prepend", "push"}
    /\ result.kind = "Full" \/ (result.kind = "ok" /\ result.flag)
    /\ LinkCount(links, ConcUser) = ConfigMaxSongs

----------------------------------------------------------------------------
(* Votes on the song being played.  The player holds one SongContext, for a *)
(* song a listener queued or for one the automatic playlist picked, and     *)
(* listeners hype and skip it in any order.                                 *)

VoterIds == 1..MaxVoters

InitVote ==
    /\ songs = (1 :> NewSong(1))
    /\ config_rotate = FALSE
    /\ users = <<>>
    /\ links = <<>>
    /\ credit_ts = NoTime
    /\ now = Epoch + ConfigOpInterval
    /\ contexts \in {<<SongContext(u, 1)>> : u \in {NoId} \cup VoterIds}
    /\ procs = <<>>
    /\ renew = <<>>
    /\ result = [seq |-> 0, op |-> "init", user |-> NoId, kind |-> "ok", song |-> NoId,
                 count |-> 0, flag |-> FALSE]

voteOthers == <<songs, users, links, credit_ts, config_rotate, now, procs, renew>>

(* flag: the voter was in the other set when the call started *)
HypeCall == \E v \in VoterIds :
    /\ contexts' = <<hype(contexts[1], v)>>
    /\ result' = [seq |-> 0, op |-> "hype", user |-> v, kind |-> "ok", song |-> 1,
                  count |-> 0, flag |-> v \in contexts[1].skips]
    /\ UNCHANGED voteOthers

SkipCall == \E v \in VoterIds :
    /\ contexts' = <<skip(contexts[1], v)>>
    /\ result' = [seq |-> 0, op |-> "skip", user |-> v,
                  kind |-> IF SkipRaises(contexts[1], v) THEN "ValueError" ELSE "ok",
                  song |-> 1, count |-> 0, flag |-> v \in contexts[1].hypes]
    /\ UNCHANGED voteOthers

NextVote == HypeCall \/ SkipCall

SpecVote == InitVote /\ [][NextVote]_vars

(* C11: the hype set and the skip set of a SongContext are disjoint, the    *)
(* requesting user is in neither, and the last vote of a user wins: after   *)
(* hype(U) U is only in the hype set, after skip(U) only in the skip set.   *)
C11_VotesExclusive ==
    LET c == contexts[1] IN
    /\ c.hypes \cap c.skips = {}
    /\ c.user \notin c.hypes \cup c.skips
    /\ (result.op = "hype" /\ result.user # c.user)
          => (result.user \in c.hypes /\ result.user \notin c.skips)
    /\ (result.op = "skip" /\ result.user # c.user)
          => (result.user \in c.skips /\ result.user \notin c.hypes)
    /\ (result.op = "skip" /\ result.user = c.user) => result.kind = "ValueError"

(* a listener who had hyped a queued song has skipped it, while another     *)
(* listener still hypes it                                                  *)
C11_Witness ==
    /\ result.op = "skip" /\ result.kind = "ok" /\ result.flag
    /\ result.user \in contexts[1].skips
    /\ contexts[1].hypes # {}
    /\ contexts[1].user # NoId

----------------------------------------------------------------------------
(* Recording the outcome of a play.  Users 1 and 2 have used the bot, so    *)
(* they have a row; the other listeners have none.  Listeners vote on the   *)
(* song, then the player calls update_stats once: the insert of line 287    *)
(* is committed on its own, the four updates in the transaction after it.   *)

InitStats ==
    /\ songs = (1 :> NewSong(1))
    /\ config_rotate \in BOOLEAN
    /\ users = [u \in UserIds |-> NewUser(config_rotate)]
    /\ links = <<>>
    /\ credit_ts = NoTime
    /\ now = Epoch + ConfigOpInterval
    /\ contexts \in {<<SongContext(u, 1)>> : u \in {NoId, 1}}
    /\ procs = [pc |-> "playing", songs |-> songs, users |-> users]
    /\ renew = <<>>
    /\ result = [seq |-> 0, op |-> "init", user |-> NoId, kind |-> "ok", song |-> NoId,
                 count |-> 0, flag |-> FALSE]

statsOthers == <<links, credit_ts, config_rotate, now, renew, result>>

StatsHype == \E v \in VoterIds :
    /\ procs.pc = "playing"
    /\ contexts' = <<hype(contexts[1], v)>>
    /\ UNCHANGED <<songs, users, procs>>
    /\ UNCHANGED statsOthers

StatsSkip == \E v \in VoterIds :
    /\ procs.pc = "playing"
    /\ contexts' = <<skip(contexts[1], v)>>
    /\ UNCHANGED <<songs, users, procs>>
    /\ UNCHANGED statsOthers

(* lines 285-287: the rows of the voters, inserted outside the transaction *)
StatsInsert ==
    /\ procs.pc = "playing"
    /\ users' = InsertIgnore(users, contexts[1].hypes \cup contexts[1].skips)
    /\ procs' = [pc |-> "inserted", songs |-> songs, users |-> users]
    /\ UNCHANGED <<songs, contexts>>
    /\ UNCHANGED statsOthers

(* lines 294-298: the four updates, in one transaction *)
StatsTxn ==
    LET r == update_stats(contexts[1], now) IN
    /\ procs.pc = "inserted"
    /\ songs' = r.songs
    /\ users' = r.users
    /\ procs' = [procs EXCEPT !.pc = "recorded"]
    /\ UNCHANGED contexts
    /\ UNCHANGED statsOthers

NextStats == StatsHype \/ StatsSkip \/ StatsInsert \/ StatsTxn

SpecStats == InitStats /\ [][NextStats]_vars

(* what a counter of user v was when update_stats was called; a user without *)
(* a row has given nothing                                                   *)
GivenBefore(v, field) == IF v \in DOMAIN procs.users THEN procs.users[v][field] ELSE 0

GivenApplied(v, field) ==
    v \in DOMAIN users /\ users[v][field] = GivenBefore(v, field) + 1

(* the writes update_stats owes for the SongContext, each with whether it is *)
(* visible in the store                                                      *)
WritesApplied ==
    LET c == contexts[1] IN
    {<<"song", songs[c.song].play_count = procs.songs[c.song].play_count + 1>>}
    \cup {<<"requester", users[c.user].play_count = procs.users[c.user].play_count + 1>> :
             u \in {c.user} \cap DOMAIN procs.users}
    \cup {<<"given", v, GivenApplied(v, "hype_count_given")>> : v \in c.hypes}
    \cup {<<"given", v, GivenApplied(v, "skip_votes_given")>> : v \in c.skips}
    \cup {<<"created", v, v \in DOMAIN users>> : v \in (c.hypes \cup c.skips) \ DOMAIN procs.users}

(* C12: the writes of recordOutcome (song counters, requesting user's       *)
(* counters, voters' given-counters, rows of unseen voters) are visible all *)
(* together or not at all, at every point a reader or a failure can see.    *)
C12_AllWritesOrNone ==
    procs.pc \in {"inserted", "recorded"} =>
        \/ \A w \in WritesApplied : w[Len(w)]
        \/ \A w \in WritesApplied : ~w[Len(w)]

(* C13: after recordOutcome every user of the hype set has given one hype   *)
(* more and every user of the skip set one skip vote more, users without a  *)
(* row before the call included.                                            *)
C13_VotersCredited ==
    procs.pc = "recorded" =>
        /\ \A v \in contexts[1].hypes : GivenApplied(v, "hype_count_given")
        /\ \A v \in contexts[1].skips : GivenApplied(v, "skip_votes_given")

----------------------------------------------------------------------------
(* The blacklist.  Songs 1 and 2 are in the catalog and have been hyped;    *)
(* operators blacklist, permit and merge them, user 1 queues them by id and *)
(* the player asks for the next song of user 1 or of the automatic playlist. *)

BlackSongs == {1, 2}

InitBlack ==
    /\ songs = [s \in BlackSongs |->
                   [NewSong(2 * s - 1) EXCEPT !.hype_count = ConfigApThreshold]]
    /\ config_rotate \in BOOLEAN
    /\ users = <<>>
    /\ links = <<>>
    /\ credit_ts = NoTime
    /\ now = Epoch + ConfigOpInterval + 1
    /\ contexts = <<>>
    /\ procs = <<>>
    /\ renew = <<>>
    /\ result = [seq |-> 0, op |-> "init", user |-> NoId, kind |-> "ok", song |-> NoId,
                 count |-> 0, flag |-> FALSE]

blackOthers == <<credit_ts, config_rotate, now, contexts, procs, renew>>

(* result.song is the id queued; result.flag whether it was blacklisted *)
BlackAppend == \E s \in BlackSongs : \E cp \in CpChoices(links, 1) :
    LET r == append_to_playlist(1, <<Uri("id", s, "ok")>>, cp) IN
    /\ Commit(r)
    /\ result' = [Ret("append", 1, r) EXCEPT !.song = s, !.flag = songs[s].is_blacklisted]
    /\ UNCHANGED blackOthers

BlackPrepend == \E s \in BlackSongs :
    LET r == prepend_to_playlist(1, <<Uri("id", s, "ok")>>) IN
    /\ Commit(r)
    /\ result' = [Ret("prepend", 1, r) EXCEPT !.song = s, !.flag = songs[s].is_blacklisted]
    /\ UNCHANGED blackOthers

(* result.flag: the song of the entry was replaced by its original *)
BlackNext ==
    LET r == get_next_song(1, TRUE) IN
    /\ Commit(r)
    /\ result' = [Ret("next", 1, r) EXCEPT
                     !.flag = r.song # NoId /\ links[users[1].playlist_head].song # r.song]
    /\ UNCHANGED blackOthers

BlackAutoplay ==
    \E pick \in IF AutoplayCandidates(songs, now) = {} THEN {NoId}
                ELSE AutoplayCandidates(songs, now) :
    LET r == get_autoplaylist_song(pick, TRUE) IN
    /\ Commit(r)
    /\ result' = Ret("autoplay", NoId, r)
    /\ UNCHANGED blackOthers

BlackBlacklist == \E song_id \in BlackSongs :
    LET r == add_to_blacklist(song_id) IN
    /\ Catalog(r)
    /\ result' = Ret("blacklist", NoId, r)

BlackPermit == \E song_id \in BlackSongs :
    LET r == remove_from_blacklist(song_id) IN
    /\ Catalog(r)
    /\ result' = Ret("permit", NoId, r)

BlackMerge == \E source_id, target_id \in BlackSongs :
    LET r == merge_songs(source_id, target_id) IN
    /\ Catalog(r)
    /\ result' = Ret("merge", NoId, r)

NextBlack == BlackAppend \/ BlackPrepend \/ BlackNext \/ BlackAutoplay \/ BlackBlacklist
             \/ BlackPermit \/ BlackMerge

SpecBlack == InitBlack /\ [][NextBlack]_vars

(* the step is a call of op *)
Called(op) == result'.seq # result.seq /\ result'.op = op

(* the song of the head entry of user 1 *)
HeadSong == links[users[1].playlist_head].song

HasHead == 1 \in DOMAIN users /\ users[1].playlist_head \in DOMAIN links

(* queueing a single blacklisted song in a playlist with room inserts it *)
BlacklistedCanBeQueued ==
    (Called("append") \/ Called("prepend"))
        => (result'.flag /\ LinkCount(links, 1) < ConfigMaxSongs
               => result'.kind = "ok" /\ result'.count = 1
                  /\ LinkCount(links', 1) = LinkCount(links, 1) + 1)

(* no PlayRecord is returned for a song blacklisted when the call started *)
BlacklistedNeverReturned ==
    (Called("next") \/ Called("autoplay"))
        => (result'.kind = "ok" => ~songs[result'.song].is_blacklisted)

(* C15 as stated: a blacklisted song can be queued, is never returned, and  *)
(* get_next_song on an entry whose song is blacklisted, or is a duplicate   *)
(* of a blacklisted song, raises Blacklisted                                *)
C15_BlacklistedEntryRejected ==
    [][/\ BlacklistedCanBeQueued
       /\ BlacklistedNeverReturned
       /\ (Called("next") /\ HasHead)
             => (songs[HeadSong].is_blacklisted
                 \/ songs[Substitute(songs, HeadSong)].is_blacklisted
                    => result'.kind = "Blacklisted")]_vars

(* C15 amended: a blacklisted song can be queued, is never returned, and    *)
(* get_next_song raises Blacklisted when the song the entry stands for      *)
(* after duplicate substitution is blacklisted; the flag of a song marked   *)
(* as a duplicate is not looked at                                          *)
C15_BlacklistedTargetRejected ==
    [][/\ BlacklistedCanBeQueued
       /\ BlacklistedNeverReturned
       /\ (Called("next") /\ HasHead)
             => (songs[Substitute(songs, HeadSong)].is_blacklisted
                    <=> result'.kind = "Blacklisted")]_vars

(* an entry holding a duplicate of a blacklisted song was rejected as       *)
(* blacklisted                                                              *)
C15_Witness ==
    /\ result.op = "next" /\ result.kind = "Blacklisted" /\ result.flag
    /\ songs[result.song].is_blacklisted
    /\ \E s \in BlackSongs : songs[s].duplicate = result.song

----------------------------------------------------------------------------
(* Songs that fail to download.  Songs 1 and 2 are in the catalog and have  *)
(* been hyped; user 1 queues them, operators merge them and clear the       *)
(* failed flag, and youtube_dl answers or raises DownloadError.             *)

InitFailed ==
    /\ songs = [s \in BlackSongs |->
                   [NewSong(2 * s - 1) EXCEPT !.hype_count = ConfigApThreshold]]
    /\ config_rotate \in BOOLEAN
    /\ users = <<>>
    /\ links = <<>>
    /\ credit_ts = NoTime
    /\ now = Epoch + ConfigOpInterval + 1
    /\ contexts = <<>>
    /\ procs = <<>>
    /\ renew = <<>>
    /\ result = [seq |-> 0, op |-> "init", user |-> NoId, kind |-> "ok", song |-> NoId,
                 count |-> 0, flag |-> FALSE]

FailedAppend == \E s \in BlackSongs : \E cp \in CpChoices(links, 1) :
    LET r == append_to_playlist(1, <<Uri("id", s, "ok")>>, cp) IN
    /\ Commit(r)
    /\ result' = Ret("append", 1, r)
    /\ UNCHANGED blackOthers

(* result.flag: youtube_dl raised DownloadError; result.count: 1 when the   *)
(* song had failed before                                                   *)
FailedNext == \E dl_ok \in BOOLEAN :
    LET r == get_next_song(1, dl_ok) IN
    /\ Commit(r)
    /\ result' = [Ret("next", 1, r) EXCEPT
                     !.flag = ~dl_ok /\ r.kind \in {"ok", "Unavailable"},
                     !.count = IF r.song # NoId /\ songs[r.song].has_failed THEN 1 ELSE 0]
    /\ UNCHANGED blackOthers

FailedAutoplay == \E dl_ok \in BOOLEAN :
    \E pick \in IF AutoplayCandidates(songs, now) = {} THEN {NoId}
                ELSE AutoplayCandidates(songs, now) :
    LET r == get_autoplaylist_song(pick, dl_ok) IN
    /\ Commit(r)
    /\ result' = [Ret("autoplay", NoId, r) EXCEPT
                     !.flag = ~dl_ok /\ r.kind \in {"ok", "Unavailable"},
                     !.count = IF r.song # NoId /\ songs[r.song].has_failed THEN 1 ELSE 0]
    /\ UNCHANGED blackOthers

(* the ids handed to clear_failed_flag: None, the songs, and one id that is *)
(* not a song                                                               *)
FailedIds == {NoId} \cup BlackSongs \cup {Max(BlackSongs) + 1}

(* result.count is the id given; result.flag whether a song that is not a   *)
(* duplicate had its flag set                                               *)
FailedClear == \E song_id \in FailedIds :
    LET r == clear_failed_flag(song_id) IN
    /\ Catalog(r)
    /\ result' = [Ret("clear_failed", NoId, r) EXCEPT
                     !.count = song_id, !.flag = list_failed_songs(songs) # {}]

(* result.count is the number of songs listed *)
FailedList ==
    /\ result' = [Ret("list_failed", NoId, Raise("ok")) EXCEPT
                     !.count = Cardinality(list_failed_songs(songs))]
    /\ UNCHANGED <<songs, users, links>>
    /\ UNCHANGED blackOthers

FailedMerge == \E source_id, target_id \in BlackSongs :
    LET r == merge_songs(source_id, target_id) IN
    /\ Catalog(r)
    /\ result' = Ret("merge", NoId, r)

NextFailed == FailedAppend \/ FailedNext \/ FailedAutoplay \/ FailedClear \/ FailedMerge
              \/ FailedList

SpecFailed == InitFailed /\ [][NextFailed]_vars

(* C16: a failed resolution in get_next_song or get_autoplaylist_song       *)
(* raises Unavailable for the song and leaves has_failed set; the automatic *)
(* playlist never returns a song whose has_failed is set; and a set flag is *)
(* reset only by a successful resolution of the song in get_next_song or by *)
(* clear_failed_flag.                                                       *)
C16_FailedFlag ==
    [][/\ (Called("next") \/ Called("autoplay"))
             => /\ result'.flag => (result'.kind = "Unavailable" /\ result'.song # NoId
                                     /\ songs'[result'.song].has_failed)
                /\ result'.kind = "Unavailable" => result'.flag
       /\ Called("autoplay")
             => (result'.kind \in {"ok", "Unavailable"} => ~songs[result'.song].has_failed)
       /\ \A s \in DOMAIN songs :
             (songs[s].has_failed /\ ~songs'[s].has_failed)
                => \/ Called("next") /\ result'.kind = "ok" /\ result'.song = s
                   \/ Called("clear_failed")]_vars

(* a song that had failed has been resolved by get_next_song and is no      *)
(* longer marked, while the other song is still marked                      *)
C16_Witness ==
    /\ result.op = "next" /\ result.kind = "ok" /\ result.count = 1
    /\ ~songs[result.song].has_failed
    /\ \E s \in DOMAIN songs : songs[s].has_failed

----------------------------------------------------------------------------
(* The automatic playlist.  Song 1 is in any state plays, votes, operators  *)
(* and failed downloads can have left it in; song 2 is a hyped song or a    *)
(* duplicate of song 1.  The player asks for a song as time goes by.        *)

InitAuto ==
    /\ songs \in {(1 :> [NewSong(loc) EXCEPT !.last_played = lp, !.hype_count = h,
                                              !.skip_votes = k, !.credit_count = c,
                                              !.is_blacklisted = b, !.has_failed = f])
                  @@ (2 :> [NewSong(1 + Cardinality(Locators)) EXCEPT
                               !.hype_count = ConfigApThreshold, !.duplicate = d]) :
                     loc \in Locators, lp \in {Epoch, Epoch + 1},
                     h \in 0..ConfigApRatio, k \in 0..1, c \in 0..1,
                     b \in BOOLEAN, f \in BOOLEAN, d \in {NoId, 1}}
    /\ config_rotate = FALSE
    /\ users = <<>>
    /\ links = <<>>
    /\ credit_ts = NoTime
    /\ now = Epoch + ConfigOpInterval
    /\ contexts = <<>>
    /\ procs = <<>>
    /\ renew = <<>>
    /\ result = [seq |-> 0, op |-> "init", user |-> NoId, kind |-> "ok", song |-> NoId,
                 count |-> 0, flag |-> FALSE]

(* the SongContext of line 328 replaces the one the player held *)
AutoAutoplay == \E dl_ok \in BOOLEAN :
    \E pick \in IF AutoplayCandidates(songs, now) = {} THEN {NoId}
                ELSE AutoplayCandidates(songs, now) :
    LET r == get_autoplaylist_song(pick, dl_ok) IN
    /\ Commit(r)
    /\ contexts' = IF r.kind = "ok" THEN <<SongContext(NoId, r.song)>> ELSE contexts
    /\ result' = Ret("autoplay", NoId, r)
    /\ UNCHANGED <<credit_ts, config_rotate, now, procs, renew>>

NextAuto == AutoAutoplay \/ Tick

SpecAuto == InitAuto /\ [][NextAuto]_vars

(* the eligibility predicate of the automatic playlist, at time t *)
Eligible(song, t) ==
    /\ song.last_played < t - ConfigOpInterval
    /\ song.hype_count >= ConfigApThreshold
    /\ song.skip_votes * ConfigApRatio <= song.hype_count
    /\ song.duration <= ConfigMaxDuration
    /\ song.credit_count > 0
    /\ ~song.is_blacklisted
    /\ ~song.has_failed
    /\ song.duplicate = NoId

(* C17: a SongContext returned by get_autoplaylist_song is for a song that  *)
(* was eligible when it was selected, and it has no requesting user.        *)
C17_AutoplayEligible ==
    [][(Called("autoplay") /\ result'.kind = "ok")
          => /\ result'.song \in DOMAIN songs
             /\ Eligible(songs[result'.song], now)
             /\ contexts' = <<SongContext(NoId, result'.song)>>
             /\ contexts'[1].user = NoId]_vars

(* song 1 was returned at the edge of every condition: last played just     *)
(* over the interval ago, as many hypes as the ratio asks for its skip      *)
(* vote, one credit left                                                    *)
C17_Witness ==
    /\ result.op = "autoplay" /\ result.kind = "ok" /\ result.song = 1
    /\ contexts = <<SongContext(NoId, 1)>>
    /\ songs[1].last_played = now - ConfigOpInterval - 1
    /\ songs[1].skip_votes = 1 /\ songs[1].hype_count = ConfigApRatio
    /\ songs[1].credit_count = 1

(* C18: with no eligible song get_autoplaylist_song returns None, raises    *)
(* nothing and changes no state.                                            *)
C18_NoCandidateReturnsNone ==
    [][(Called("autoplay") /\ \A s \in DOMAIN songs : ~Eligible(songs[s], now))
          => /\ result'.kind = "none" /\ result'.song = NoId
             /\ songs' = songs /\ users' = users /\ links' = links
             /\ contexts' = contexts /\ credit_ts' = credit_ts]_vars

(* None was returned although song 1 lacks a single condition, its credit,  *)
(* and song 2 is its duplicate                                              *)
C18_Witness ==
    /\ result.op = "autoplay" /\ result.kind = "none"
    /\ Eligible([songs[1] EXCEPT !.credit_count = 1], now)
    /\ songs[1].credit_count = 0
    /\ songs[2].duplicate = 1

(* C31: clearing the failed flag of all songs resets it on every song that  *)
(* is not a duplicate and keeps it on the duplicates; clearing it for one   *)
(* id resets it on that song only and fails with NotFound (ValueError) for  *)
(* an id that is not a song; the list of failed songs holds exactly the     *)
(* songs that have the flag and are not duplicates.                         *)
C31_ClearAndListFailed ==
    [][/\ Called("clear_failed") =>
             LET song_id == result'.count IN
             /\ DOMAIN songs' = DOMAIN songs
             /\ result'.kind = IF song_id = NoId \/ song_id \in DOMAIN songs THEN "ok"
                               ELSE "ValueError"
             /\ \A s \in DOMAIN songs :
                   songs'[s] = IF (song_id = NoId /\ songs[s].duplicate = NoId) \/ song_id = s
                               THEN [songs[s] EXCEPT !.has_failed = FALSE]
                               ELSE songs[s]
       /\ Called("list_failed") =>
             /\ list_failed_songs(songs) =
                   {s \in DOMAIN songs : songs[s].has_failed /\ songs[s].duplicate = NoId}
             /\ result'.count = Cardinality(list_failed_songs(songs))
             /\ songs' = songs]_vars

(* the flag of all songs was cleared while an original and its duplicate    *)
(* had it: the duplicate still has it                                       *)
C31_Witness ==
    /\ result.op = "clear_failed" /\ result.kind = "ok" /\ result.count = NoId
    /\ result.flag
    /\ \E s \in DOMAIN songs : songs[s].duplicate # NoId /\ songs[s].has_failed
    /\ list_failed_songs(songs) = {}

----------------------------------------------------------------------------
(* Shutdown of the renewal task.  _credit_renew is a coroutine of the event *)
(* loop: it runs from one await to the next without giving up the loop, and *)
(* its only await is the sleep at the end of a pass.  cleanup is a          *)
(* coroutine of the same loop.  renew.task is the position of the task:     *)
(* "none" before init, "created" before its first run, "sleep" in the       *)
(* await, "read", "ts" and "credits" inside a pass ("ts": the transaction   *)
(* is open, "credits": the checkpoint is written in it), "cancelled" and    *)
(* "failed" (a query raised, the transaction was rolled back).  renew.undo  *)
(* is the checkpoint the open transaction started from; renew.advanced and  *)
(* renew.added count the periods the checkpoint was moved and the credits   *)
(* the songs were offered; renew.returned tells that cleanup has returned.  *)

(* line 735: where the task waits and a cancellation is delivered *)
CancelPoints == {"created", "sleep"}

(* CleanupTask gone wrong: the task is not cancelled *)
CleanupTaskKept(task) == task

(* lines 198-201: the task is cancelled and awaited; a task that has failed *)
(* stays failed and the await raises its exception                          *)
CleanupTask(task) == IF task \in CancelPoints THEN "cancelled" ELSE task

InitShutdown ==
    /\ songs \in {[s \in 1..2 |-> [NewSong(s) EXCEPT !.credit_count = c[s]]] :
                     c \in [1..2 -> 0..ConfigOpCreditCap]}
    /\ config_rotate = FALSE
    /\ users = <<>>
    /\ links = <<>>
    /\ credit_ts \in {NoTime, Epoch}
    /\ now = Epoch + ConfigOpInterval
    /\ contexts = <<>>
    /\ procs = <<>>
    /\ renew = [task |-> "none", n |-> 0, undo |-> NoTime, t0 |-> credit_ts,
                advanced |-> 0, added |-> 0, returned |-> FALSE]
    /\ result = [seq |-> 0, op |-> "init", user |-> NoId, kind |-> "ok", song |-> NoId,
                 count |-> 0, flag |-> FALSE]

shutOthers == <<users, links, config_rotate, now, contexts, procs>>

(* line 193: init() creates the task *)
ShutInit ==
    /\ renew.task = "none" /\ ~renew.returned
    /\ renew' = [renew EXCEPT !.task = "created"]
    /\ UNCHANGED <<songs, credit_ts, result>>
    /\ UNCHANGED shutOthers

(* lines 716-717 on the first run, and the wake-up from the sleep *)
ShutWake ==
    /\ renew.task \in CancelPoints
    /\ credit_ts' = IF renew.task = "created" /\ credit_ts = NoTime THEN now ELSE credit_ts
    /\ renew' = [renew EXCEPT !.task = "read",
                              !.t0 = IF @ = NoTime THEN credit_ts' ELSE @]
    /\ UNCHANGED <<songs, result>>
    /\ UNCHANGED shutOthers

(* lines 721-724: the times are read; without a whole period the pass ends *)
ShutRead ==
    /\ renew.task = "read"
    /\ renew' = IF CreditsToAdd(now, credit_ts) > 0
                THEN [renew EXCEPT !.task = "ts", !.n = CreditsToAdd(now, credit_ts)]
                ELSE [renew EXCEPT !.task = "sleep"]
    /\ UNCHANGED <<songs, credit_ts, result>>
    /\ UNCHANGED shutOthers

(* line 732: the checkpoint is written inside the transaction; or a query   *)
(* raises and the task ends                                                 *)
ShutTs == \E raised \in BOOLEAN :
    /\ renew.task = "ts"
    /\ IF raised
       THEN /\ credit_ts' = credit_ts
            /\ renew' = [renew EXCEPT !.task = "failed", !.n = 0]
       ELSE /\ credit_ts' = credit_ts + renew.n * ConfigOpCreditRenew
            /\ renew' = [renew EXCEPT !.task = "credits", !.undo = credit_ts,
                                      !.advanced = @ + renew.n]
    /\ UNCHANGED <<songs, result>>
    /\ UNCHANGED shutOthers

(* line 733 and the commit, or the query raises and the transaction is      *)
(* rolled back                                                              *)
ShutCredits == \E raised \in BOOLEAN :
    /\ renew.task = "credits"
    /\ IF raised
       THEN /\ credit_ts' = renew.undo
            /\ songs' = songs
            /\ renew' = [renew EXCEPT !.task = "failed", !.n = 0, !.undo = NoTime,
                                      !.advanced = @ - renew.n]
       ELSE /\ credit_ts' = credit_ts
            /\ songs' = [s \in DOMAIN songs |->
                            [songs[s] EXCEPT !.credit_count = RenewedCredit(@, renew.n)]]
            /\ renew' = [renew EXCEPT !.task = "sleep", !.n = 0, !.undo = NoTime,
                                      !.added = @ + renew.n]
    /\ UNCHANGED result
    /\ UNCHANGED shutOthers

(* lines 195-201: cleanup runs when the loop is free, that is when the task *)
(* is not inside a pass; result.kind is "ok" when it returned               *)
ShutCleanup ==
    /\ renew.task \in {"none", "failed", "cancelled"} \cup CancelPoints
    /\ ~renew.returned
    /\ renew' = [renew EXCEPT !.task = CleanupTask(@), !.returned = @ \/ renew.task # "failed"]
    /\ result' = [result EXCEPT !.op = "cleanup",
                                !.kind = IF renew.task = "failed" THEN "OperationalError"
                                         ELSE "ok"]
    /\ UNCHANGED <<songs, credit_ts>>
    /\ UNCHANGED shutOthers

NextShutdown == ShutInit \/ ShutWake \/ ShutRead \/ ShutTs \/ ShutCredits \/ ShutCleanup
                \/ Tick

SpecShutdown == InitShutdown /\ [][NextShutdown]_vars

(* C32: once cleanup has returned the renewal task has ended and neither    *)
(* the checkpoint nor a credit changes any more; and whenever the task ends *)
(* no transaction is open and the checkpoint has moved by as many periods   *)
(* as credits were offered to the songs.                                    *)
C32_ShutdownClean ==
    [][/\ renew.returned =>
             /\ renew.task \in {"none", "cancelled"}
             /\ renew'.task = renew.task
             /\ credit_ts' = credit_ts /\ songs' = songs
       /\ renew'.task \in {"cancelled", "failed"} =>
             /\ renew'.undo = NoTime
             /\ renew'.advanced = renew'.added
             /\ renew'.advanced > 0 =>
                   credit_ts' = renew'.t0 + renew'.advanced * ConfigOpCreditRenew]_vars

(* cleanup has returned after a pass that added credit; the clock has gone  *)
(* on by more than a period since and the checkpoint has stayed             *)
C32_Witness ==
    /\ renew.returned /\ renew.task = "cancelled" /\ result.op = "cleanup"
    /\ renew.added > 0
    /\ now - credit_ts > ConfigOpCreditRenew

----------------------------------------------------------------------------
(* Playing duplicates.  Songs 1 and 2 are in the catalog, one of them over  *)
(* the length limit; operators merge, split, blacklist and permit them,     *)
(* user 1 queues them by id, and the player asks for the next song of user  *)
(* 1 and reports its outcome before it asks again.  procs keeps the song    *)
(* the consumed entry referred to and the song that was checked.            *)

SubstSongs == {1, 2}

InitSubst ==
    /\ \E long \in SubstSongs :
          songs = [s \in SubstSongs |-> NewSong(IF s = long THEN 2 ELSE 1)]
    /\ config_rotate = TRUE
    /\ users = <<>>
    /\ links = <<>>
    /\ credit_ts = NoTime
    /\ now = Epoch + ConfigOpInterval
    /\ contexts = <<>>
    /\ procs = [queued |-> NoId, target |-> NoId]
    /\ renew = <<>>
    /\ result = [seq |-> 0, op |-> "init", user |-> NoId, kind |-> "ok", song |-> NoId,
                 count |-> 0, flag |-> FALSE]

SubstAppend == \E s \in SubstSongs : \E cp \in CpChoices(links, 1) :
    /\ Commit(append_to_playlist(1, <<Uri("id", s, "ok")>>, cp))
    /\ UNCHANGED others

SubstMerge == \E source_id, target_id \in SubstSongs :
    Catalog(merge_songs(source_id, target_id)) /\ UNCHANGED result

SubstBlacklist == \E song_id \in SubstSongs :
    Catalog(add_to_blacklist(song_id)) /\ UNCHANGED result

SubstPermit == \E song_id \in SubstSongs :
    Catalog(remove_from_blacklist(song_id)) /\ UNCHANGED result

(* result.flag: whether youtube_dl could extract the song *)
SubstNext == \E dl_ok \in BOOLEAN :
    LET r == get_next_song(1, dl_ok) IN
    /\ contexts = <<>>
    /\ Commit(r)
    /\ contexts' = IF r.kind = "ok" THEN <<PlayRecord(songs, 1, r.song)>> ELSE contexts
    /\ procs' = IF 1 \in DOMAIN users /\ users[1].playlist_head \in DOMAIN links
                THEN [queued |-> links[users[1].playlist_head].song, target |-> r.song]
                ELSE procs
    /\ result' = [Ret("next", 1, r) EXCEPT !.flag = dl_ok]
    /\ UNCHANGED <<credit_ts, config_rotate, now, renew>>

SubstRecord ==
    LET r == update_stats(contexts[1], now) IN
    /\ contexts # <<>>
    /\ songs[contexts[1].song].play_count < MaxPlays
    /\ Commit(r)
    /\ contexts' = <<>>
    /\ result' = [Ret("record", 1, r) EXCEPT !.song = contexts[1].song]
    /\ UNCHANGED <<credit_ts, config_rotate, now, procs, renew>>

NextSubst == SubstAppend \/ SubstMerge \/ SubstBlacklist \/ SubstPermit \/ SubstNext
             \/ SubstRecord \/ Tick

SpecSubst == InitSubst /\ [][NextSubst]_vars

(* C27: when the entry consumed by nextForUser refers to a duplicate, the   *)
(* blacklist, interval, credit and length checks and the download are those *)
(* of the original, the failed flag is kept on the original, the record     *)
(* handed to the player has the id, title and duration of the original, and *)
(* recordOutcome of that record takes the credit from the original and      *)
(* stamps its last_played, leaving the duplicate as it was.                 *)
C27_ChecksOnOriginal ==
    [][/\ (Called("next") /\ 1 \in DOMAIN users /\ users[1].playlist_head \in DOMAIN links
            /\ songs[HeadSong].duplicate # NoId)
          => LET q == HeadSong
                 t == songs[q].duplicate
                 gate == PolicyGate(songs[t], now)
             IN  /\ result'.song = t
                 /\ result'.kind = IF gate # "ok" THEN gate
                                   ELSE IF result'.flag THEN "ok" ELSE "Unavailable"
                 /\ songs'[q] = songs[q]
                 /\ gate = "ok" => songs'[t].has_failed = ~result'.flag
                 /\ gate # "ok" => songs' = songs
                 /\ IF result'.kind = "ok"
                    THEN /\ Len(contexts') = 1
                         /\ contexts'[1].song = t
                         /\ contexts'[1].title = songs[t].title
                         /\ contexts'[1].duration = songs[t].duration
                    ELSE contexts' = contexts
       /\ (Called("record") /\ procs.queued # procs.target)
          => /\ result'.song = procs.target
             /\ songs'[procs.target].credit_count = songs[procs.target].credit_count - 1
             /\ songs'[procs.target].last_played = now
             /\ songs'[procs.queued] = songs[procs.queued]]_vars

(* the outcome of a play was recorded for the short original of the long    *)
(* and blacklisted duplicate that the consumed entry referred to            *)
C27_Witness ==
    /\ result.op = "record" /\ result.kind = "ok"
    /\ procs.queued # NoId /\ procs.queued # procs.target
    /\ result.song = procs.target
    /\ songs[procs.queued].duration > ConfigMaxDuration
    /\ songs[procs.queued].is_blacklisted
    /\ songs[procs.queued].play_count = 0
    /\ songs[procs.target].play_count > 0

----------------------------------------------------------------------------
(* Concurrent resolution of locators.  _process_uris runs in the executor's *)
(* threads outside any transaction, so two _get_song calls overlap: each    *)
(* looks the locator up, asks youtube_dl for the title and duration when it *)
(* found no row, and then calls create_or_get.  The uuri column has a plain *)
(* index (index=True, not unique), so the INSERT of create_or_get never     *)
(* meets an IntegrityError and always creates a row.                        *)

Resolving == [pc |-> "idle", uuri |-> NoId]

InitResolve ==
    /\ songs = <<>>
    /\ users = <<>>
    /\ links = <<>>
    /\ credit_ts = NoTime
    /\ config_rotate \in BOOLEAN
    /\ now = Epoch + ConfigOpInterval
    /\ contexts = <<>>
    /\ procs = [p \in Procs |-> Resolving]
    /\ renew = <<>>
    /\ result = [seq |-> 0, op |-> "init", user |-> NoId, kind |-> "ok", song |-> NoId,
                 count |-> 0, flag |-> FALSE]

(* lines 653-664: the lookup by uuri; on a miss youtube_dl is asked *)
ResolveLookup == \E p \in Procs, uri \in UrlUris :
    /\ procs[p].pc = "idle"
    /\ procs' = IF SongByUuri(songs, uri.v) = {} /\ uri.res = "ok"
                THEN [procs EXCEPT ![p] = [pc |-> "missed", uuri |-> uri.v]]
                ELSE procs
    /\ result' = [seq |-> 0, op |-> "lookup", user |-> p,
                  kind |-> GetSong(songs, uri).kind,
                  song |-> IF SongByUuri(songs, uri.v) = {} THEN NoId
                           ELSE GetSong(songs, uri).song,
                  count |-> 0, flag |-> FALSE]
    /\ UNCHANGED <<songs, users, links, credit_ts, config_rotate, now, contexts, renew>>

(* lines 665-667: create_or_get inserts the row; result.flag tells whether  *)
(* the catalog already had a row of the locator                             *)
ResolveCreate == \E p \in Procs :
    /\ procs[p].pc = "missed"
    /\ NextRowId(songs) <= NumSongs
    /\ songs' = songs @@ (NextRowId(songs) :> NewSong(procs[p].uuri))
    /\ procs' = [procs EXCEPT ![p] = Resolving]
    /\ result' = [seq |-> 0, op |-> "create", user |-> p, kind |-> "ok",
                  song |-> NextRowId(songs), count |-> 0,
                  flag |-> SongByUuri(songs, procs[p].uuri) # {}]
    /\ UNCHANGED <<users, links, credit_ts, config_rotate, now, contexts, renew>>

NextResolve == ResolveLookup \/ ResolveCreate

SpecResolve == InitResolve /\ [][NextResolve]_vars

(* C28: no two songs of the catalog have the same locator, also when two    *)
(* callers resolve the same new locator at the same time.                   *)
C28_LocatorsUnique ==
    \A s1, s2 \in DOMAIN songs : songs[s1].uuri = songs[s2].uuri => s1 = s2

----------------------------------------------------------------------------
(* Duplicate groups.  The catalog holds songs that were played, hyped and   *)
(* skipped different numbers of times, one of them blacklisted and one      *)
(* failed; user 1 has two of them in the playlist.  Operators merge and     *)
(* split songs and ask for their info.  procs keeps the arguments of the    *)
(* last merge; result.flag tells whether its source was a duplicate.        *)

InitGroup ==
    /\ songs = [s \in CatalogIds |->
                   [NewSong(s) EXCEPT !.hype_count = s, !.skip_votes = 1, !.play_count = s + 1,
                                      !.last_played = Epoch + 1,
                                      !.credit_count = ConfigOpCreditCap - 1,
                                      !.is_blacklisted = (s = 1), !.has_failed = (s = 2)]]
    /\ config_rotate \in BOOLEAN
    /\ users = (1 :> [NewUser(config_rotate) EXCEPT !.playlist_head = 1])
    /\ links = (1 :> NewLink(1, 1, 2)) @@ (2 :> NewLink(1, 2, NoId))
    /\ credit_ts = NoTime
    /\ now = Epoch + ConfigOpInterval
    /\ contexts = <<>>
    /\ procs = [source |-> NoId, target |-> NoId]
    /\ renew = <<>>
    /\ result = [seq |-> 0, op |-> "init", user |-> NoId, kind |-> "ok", song |-> NoId,
                 count |-> 0, flag |-> FALSE]

GroupMerge == \E source_id, target_id \in MergeIds :
    LET r == merge_songs(source_id, target_id) IN
    /\ Commit(r)
    /\ procs' = [source |-> source_id, target |-> target_id]
    /\ result' = [Ret("merge", NoId, r) EXCEPT
                     !.flag = source_id \in DOMAIN songs /\ songs[source_id].duplicate # NoId]
    /\ UNCHANGED <<credit_ts, config_rotate, now, contexts, renew>>

(* result.count is the total play count reported *)
GroupInfo == \E song_id \in MergeIds :
    LET r == get_song_info(song_id) IN
    /\ result' = [seq |-> 1 - result.seq, op |-> "info", user |-> NoId, kind |-> r.kind,
                  song |-> r.id, count |-> r.total_play_count, flag |-> FALSE]
    /\ UNCHANGED <<songs, users, links, credit_ts, config_rotate, now, contexts, procs, renew>>

NextGroup == GroupMerge \/ GroupInfo

SpecGroup == InitGroup /\ [][NextGroup]_vars

(* C29: merge and split change nothing but duplicate fields: every other    *)
(* field of every song, the users and the playlists stay as they are; and a *)
(* split changes the song it is given only, so the songs that are its       *)
(* duplicates stay its duplicates.                                          *)
C29_OnlyDuplicateChanges ==
    [][Called("merge") =>
         /\ users' = users /\ links' = links
         /\ DOMAIN songs' = DOMAIN songs
         /\ \A s \in DOMAIN songs :
               [songs'[s] EXCEPT !.duplicate = songs[s].duplicate] = songs[s]
         /\ procs'.source = procs'.target =>
               \A s \in DOMAIN songs \ {procs'.source} : songs'[s] = songs[s]]_vars

(* song 2, a duplicate, was split off; it is still the failed song of the  *)
(* playlist with its play count, song 3 is still a duplicate of song 1, and *)
(* song 1 is still blacklisted with its hype count                          *)
C29_Witness ==
    /\ result.op = "merge" /\ result.kind = "ok" /\ result.flag
    /\ procs.source = 2 /\ procs.target = 2
    /\ songs[2].duplicate = NoId /\ songs[2].has_failed /\ songs[2].play_count = 3
    /\ songs[3].duplicate = 1
    /\ songs[1].is_blacklisted /\ songs[1].hype_count = 1
    /\ links[2].song = 2

(* C33: a successful merge of source into another song target redirects to  *)
(* e, which is target when target has no original or is a duplicate of      *)
(* source, and the original of target otherwise: afterwards source and the  *)
(* songs that were duplicates of source are duplicates of e, e has no       *)
(* original, and every other song has the original it had.                  *)
C33_MergeEffectiveTarget ==
    [][(Called("merge") /\ result'.kind = "ok" /\ procs'.source # procs'.target) =>
         LET source == procs'.source
             target == procs'.target
             e == IF songs[target].duplicate = NoId THEN target
                  ELSE IF songs[target].duplicate = source THEN target
                  ELSE songs[target].duplicate
         IN  /\ result'.song = e
             /\ DOMAIN songs' = DOMAIN songs
             /\ \A s \in DOMAIN songs :
                   songs'[s].duplicate =
                       IF s = e THEN NoId
                       ELSE IF s = source \/ songs[s].duplicate = source THEN e
                       ELSE songs[s].duplicate]_vars

(* a song with a duplicate of its own was merged into a duplicate of a      *)
(* third song: all three are now duplicates of that third song              *)
C33_Witness ==
    /\ result.op = "merge" /\ result.kind = "ok"
    /\ procs.source # procs.target
    /\ result.song \notin {procs.source, procs.target}
    /\ songs[procs.source].duplicate = result.song
    /\ songs[procs.target].duplicate = result.song
    /\ \E s \in DOMAIN songs \ {procs.source, procs.target} :
          songs[s].duplicate = result.song
    /\ result.count = 2

(* the songs of the duplicate group of song s: its root and the duplicates  *)
(* of the root                                                              *)
GroupOf(cat, s) ==
    LET root == IF cat[s].duplicate # NoId THEN cat[s].duplicate ELSE s
    IN  {root} \cup {x \in DOMAIN cat : cat[x].duplicate = root}

(* C30: info(id) reports as total hype, skip and play counters the sums of  *)
(* those counters over the duplicate group of the song, for a root as for a *)
(* duplicate, and fails with NotFound (ValueError) for an id that is not in *)
(* the catalog.                                                             *)
C30_InfoTotalsOverGroup ==
    \A song_id \in MergeIds :
        LET r == get_song_info(song_id) IN
        IF song_id \notin DOMAIN songs THEN r.kind = "ValueError"
        ELSE LET group == SetToSeq(GroupOf(songs, song_id)) IN
             /\ r.kind = "ok"
             /\ r.total_hype_count = SumSeq([i \in 1..Len(group) |-> songs[group[i]].hype_count])
             /\ r.total_skip_votes = SumSeq([i \in 1..Len(group) |-> songs[group[i]].skip_votes])
             /\ r.total_play_count = SumSeq([i \in 1..Len(group) |-> songs[group[i]].play_count])

----------------------------------------------------------------------------
(* The resolver and the playlist transactions.  Two calls for user 1 run in *)
(* the executor's threads, each through the steps of its method in source   *)
(* order: "count" the advisory count, "resolve" the calls of youtube_dl     *)
(* (_process_uris, the search and _get_song of push, extract_info of        *)
(* get_next_song), "begin" and "commit" the atomic block, "gate" the        *)
(* constraints of get_next_song.  SQLite lets one write transaction be open *)
(* at a time, so what a transaction does is applied where it commits.  Per  *)
(* call: i the step it is at (0 when it has returned or raised), txn        *)
(* whether its atomic block is open, resolved and committed whether it has  *)
(* called the resolver and committed.                                       *)

(* Steps gone wrong: append and prepend resolve inside the transaction *)
StepsHolding(op) ==
    IF op = "next" THEN <<"begin", "commit", "gate", "resolve">>
    ELSE <<"count", "begin", "resolve", "commit">>

(* lines 363-369, 399-405, 448-461 and 209-253: the order of the steps *)
Steps(op) ==
    IF op = "next" THEN <<"begin", "commit", "gate", "resolve">>
    ELSE <<"count", "resolve", "begin", "commit">>

OrderIdle == [op |-> "none", i |-> 0, txn |-> FALSE, resolved |-> FALSE,
              committed |-> FALSE, limit |-> 0, song_list |-> <<>>]

InitOrder ==
    /\ songs = <<>>
    /\ users = <<>>
    /\ links = <<>>
    /\ credit_ts = NoTime
    /\ config_rotate \in BOOLEAN
    /\ now = Epoch + ConfigOpInterval
    /\ contexts = <<>>
    /\ procs = [p \in Procs |-> OrderIdle]
    /\ renew = <<>>
    /\ result = [seq |-> 0, op |-> "init", user |-> NoId, kind |-> "ok", song |-> NoId,
                 count |-> 0, flag |-> FALSE]

(* the step the call p is at *)
AtStep(p, step) ==
    /\ procs[p].i \in 1..Len(Steps(procs[p].op))
    /\ Steps(procs[p].op)[procs[p].i] = step

(* the call has returned or raised; an open atomic block is left *)
Returned(call) == [call EXCEPT !.i = 0, !.txn = FALSE]

(* the call goes on to its next step, or has returned after its last *)
Advanced(call) ==
    IF call.i < Len(Steps(call.op)) THEN [call EXCEPT !.i = @ + 1] ELSE Returned(call)

orderOthers == <<credit_ts, config_rotate, now, contexts, renew, result>>

OrderCall == \E p \in Procs, op \in {"append", "prepend", "push", "next"} :
    /\ procs[p].i = 0
    /\ procs' = [procs EXCEPT ![p] = [OrderIdle EXCEPT !.op = op, !.i = 1]]
    /\ UNCHANGED <<songs, users, links>>
    /\ UNCHANGED orderOthers

(* lines 363-365, 399-401, 448-450 *)
OrderCount == \E p \in Procs :
    LET count == LinkCount(links, ConcUser) IN
    /\ AtStep(p, "count")
    /\ procs' = [procs EXCEPT ![p] =
                    IF count >= ConfigMaxSongs THEN Returned(@)
                    ELSE Advanced([@ EXCEPT !.limit = ConfigMaxSongs - count])]
    /\ UNCHANGED <<songs, users, links>>
    /\ UNCHANGED orderOthers

(* lines 367, 403: _process_uris; lines 452-459: the search and _get_song;  *)
(* lines 252-265: extract_info of the song to play and the failed flag      *)
OrderResolve == \E p \in Procs :
    /\ AtStep(p, "resolve")
    /\ \/ /\ procs[p].op \in {"append", "prepend"}
          /\ \E uris \in SeqsUpTo(UrlUris, MaxUris) :
             LET r == ProcessUris(songs, uris, procs[p].limit, <<>>, 0) IN
             /\ songs' = r.songs
             /\ procs' = [procs EXCEPT ![p] =
                             Advanced([@ EXCEPT !.resolved = TRUE, !.song_list = r.song_list])]
       \/ /\ procs[p].op = "push"
          /\ \E found \in UrlUris :
             LET g == GetSong(songs, found) IN
             /\ songs' = g.songs
             /\ procs' = [procs EXCEPT ![p] =
                             Advanced([@ EXCEPT !.resolved = TRUE, !.song_list = <<g.song>>])]
       \/ /\ procs[p].op = "next"
          /\ \E dl_ok \in BOOLEAN :
             /\ songs' = [songs EXCEPT ![procs[p].song_list[1]].has_failed = ~dl_ok]
             /\ procs' = [procs EXCEPT ![p] = Advanced([@ EXCEPT !.resolved = TRUE])]
    /\ UNCHANGED <<users, links>>
    /\ UNCHANGED orderOthers

(* lines 369, 405, 461, 209: the atomic block is entered; the write lock is *)
(* free                                                                     *)
OrderBegin == \E p \in Procs :
    /\ AtStep(p, "begin")
    /\ \A q \in Procs : ~procs[q].txn
    /\ procs' = [procs EXCEPT ![p] = Advanced([@ EXCEPT !.txn = TRUE])]
    /\ UNCHANGED <<songs, users, links>>
    /\ UNCHANGED orderOthers

(* lines 370-393, 406-421, 462-470 and 211-235: the block's queries and its *)
(* end; an exception in it rolls back and ends the call                     *)
OrderCommit == \E p \in Procs : \E cp \in CpChoices(links, ConcUser) :
    /\ AtStep(p, "commit")
    /\ IF procs[p].op = "next"
       THEN LET us == GetUser(users, ConcUser)
                head == us[ConcUser].playlist_head
            IN  IF GetUserRaises(users, ConcUser) \/ head \notin DOMAIN links
                THEN /\ UNCHANGED <<users, links>>
                     /\ procs' = [procs EXCEPT ![p] = Returned(@)]
                ELSE /\ users' = Dequeue(us, links, ConcUser).users
                     /\ links' = Dequeue(us, links, ConcUser).links
                     /\ procs' = [procs EXCEPT ![p] =
                           Advanced([@ EXCEPT !.txn = FALSE, !.committed = TRUE,
                                              !.song_list = <<Substitute(songs, links[head].song)>>])]
       ELSE LET tx == IF procs[p].op = "append"
                      THEN AppendTxn(users, links, ConcUser, procs[p].song_list, cp)
                      ELSE IF procs[p].op = "prepend"
                      THEN PrependTxn(users, links, ConcUser, procs[p].song_list)
                      ELSE IF procs[p].song_list = <<>> THEN Rollback("none", users, links)
                      ELSE PushTxn(users, links, ConcUser, procs[p].song_list[1])
            IN  /\ DOMAIN tx.links \subseteq 1..MaxLinkId
                /\ users' = tx.users
                /\ links' = tx.links
                /\ procs' = [procs EXCEPT ![p] =
                                Advanced([@ EXCEPT !.txn = FALSE, !.committed = TRUE])]
    /\ UNCHANGED songs
    /\ UNCHANGED orderOthers

(* lines 237-250: a constraint that fails ends the call *)
OrderGate == \E p \in Procs :
    /\ AtStep(p, "gate")
    /\ procs' = [procs EXCEPT ![p] =
                    IF PolicyGate(songs[procs[p].song_list[1]], now) = "ok" THEN Advanced(@)
                    ELSE Returned(@)]
    /\ UNCHANGED <<songs, users, links>>
    /\ UNCHANGED orderOthers

NextOrder == OrderCall \/ OrderCount \/ OrderResolve \/ OrderBegin \/ OrderCommit \/ OrderGate

SpecOrder == InitOrder /\ [][NextOrder]_vars

(* C34: a call of append, prepend, push or nextForUser calls the resolver   *)
(* only while its own playlist transaction is not open: an insertion has    *)
(* resolved before its transaction begins, and nextForUser resolves only    *)
(* after its dequeue has been committed.                                    *)
C34_ResolveOutsideTransaction ==
    [][\A p \in Procs :
         /\ (procs'[p].resolved /\ ~procs[p].resolved) =>
               /\ ~procs[p].txn /\ ~procs'[p].txn
               /\ procs[p].op = "next" => procs[p].committed
         /\ (procs'[p].txn /\ ~procs[p].txn /\ procs[p].op # "next") => procs[p].resolved]_vars

(* one call has resolved a new song and waits for the write lock that the   *)
(* dequeue of the other call holds                                          *)
C34_Witness ==
    \E p, q \in Procs :
        /\ procs[p].op = "append" /\ procs[p].resolved /\ ~procs[p].txn
        /\ procs[p].song_list # <<>> /\ AtStep(p, "begin")
        /\ procs[q].op = "next" /\ procs[q].txn /\ ~procs[q].resolved

----------------------------------------------------------------------------
(* A renewal pass against update_stats.  The pass runs in the loop's thread *)
(* and update_stats in a thread of the executor, each on its own            *)
(* connection.  Every write is one UPDATE whose new value SQLite computes   *)
(* from the row, and the first UPDATE of an atomic block takes the write    *)
(* lock of the database, which the block holds until it ends.  procs keeps  *)
(* the holder of the lock, where the pass (ren) and update_stats (rec) are, *)
(* the credits n the pass adds, the credit c0 of song 1 before both, and    *)
(* which of the two wrote the credit first.                                 *)

InitRace ==
    /\ songs \in {(1 :> [NewSong(1) EXCEPT !.credit_count = c]) : c \in 0..ConfigOpCreditCap}
    /\ config_rotate = FALSE
    /\ users = (1 :> NewUser(config_rotate))
    /\ links = <<>>
    /\ credit_ts = Epoch
    /\ now = Epoch + ConfigOpInterval
    /\ contexts = <<SongContext(1, 1)>>
    /\ procs = [lock |-> "free", ren |-> "sleep", rec |-> "called", n |-> 0,
                c0 |-> songs[1].credit_count, first |-> "none"]
    /\ renew = <<>>
    /\ result = [seq |-> 0, op |-> "init", user |-> NoId, kind |-> "ok", song |-> NoId,
                 count |-> 0, flag |-> FALSE]

raceOthers == <<links, config_rotate, renew, result>>

(* lines 721-723: the pass reads the clock and the checkpoint *)
RaceRead ==
    /\ procs.ren = "sleep"
    /\ procs' = [procs EXCEPT !.ren = IF CreditsToAdd(now, credit_ts) > 0 THEN "ts" ELSE "done",
                              !.n = CreditsToAdd(now, credit_ts)]
    /\ UNCHANGED <<songs, users, credit_ts, now, contexts>>
    /\ UNCHANGED raceOthers

(* line 732: the checkpoint is written, the block has the lock *)
RaceTs ==
    /\ procs.ren = "ts" /\ procs.lock = "free"
    /\ credit_ts' = credit_ts + procs.n * ConfigOpCreditRenew
    /\ procs' = [procs EXCEPT !.ren = "credits", !.lock = "ren"]
    /\ UNCHANGED <<songs, users, now, contexts>>
    /\ UNCHANGED raceOthers

(* line 733 and the end of the block *)
RaceCredits ==
    /\ procs.ren = "credits"
    /\ songs' = [s \in DOMAIN songs |->
                    [songs[s] EXCEPT !.credit_count = RenewedCredit(@, procs.n)]]
    /\ procs' = [procs EXCEPT !.ren = "done", !.lock = "free",
                              !.first = IF @ = "none" THEN "ren" ELSE @]
    /\ UNCHANGED <<users, credit_ts, now, contexts>>
    /\ UNCHANGED raceOthers

(* line 295: the song is written, the block has the lock *)
RaceSong ==
    /\ procs.rec = "called" /\ procs.lock = "free"
    /\ songs' = update_stats(contexts[1], now).songs
    /\ procs' = [procs EXCEPT !.rec = "users", !.lock = "rec",
                              !.first = IF @ = "none" THEN "rec" ELSE @]
    /\ UNCHANGED <<users, credit_ts, now, contexts>>
    /\ UNCHANGED raceOthers

(* lines 296-298 and the end of the block *)
RaceUsers ==
    /\ procs.rec = "users"
    /\ users' = update_stats(contexts[1], now).users
    /\ contexts' = <<>>
    /\ procs' = [procs EXCEPT !.rec = "done", !.lock = "free"]
    /\ UNCHANGED <<songs, credit_ts, now>>
    /\ UNCHANGED raceOthers

RaceTick ==
    /\ now < MaxTime
    /\ now' = now + 1
    /\ UNCHANGED <<songs, users, credit_ts, contexts, procs>>
    /\ UNCHANGED raceOthers

NextRace == RaceRead \/ RaceTs \/ RaceCredits \/ RaceSong \/ RaceUsers \/ RaceTick

SpecRace == InitRace /\ [][NextRace]_vars

(* C36: after a renewal pass adding n and one recordOutcome on a song with  *)
(* credit c, whatever their interleaving, the credit is min(c + n, cap) - 1 *)
(* when the pass wrote first and min(c - 1 + n, cap) when recordOutcome     *)
(* did: both updates are in it.                                             *)
C36_NoLostCreditUpdate ==
    (procs.ren = "done" /\ procs.rec = "done") =>
        songs[1].credit_count =
            IF procs.first = "ren" \/ procs.n = 0
            THEN Min2(procs.c0 + procs.n, ConfigOpCreditCap) - 1
            ELSE Min2(procs.c0 - 1 + procs.n, ConfigOpCreditCap)

(* recordOutcome wrote first and waited with its block open while the pass  *)
(* had read the times; the pass then filled the credit up to the cap        *)
C36_Witness ==
    /\ procs.ren = "done" /\ procs.rec = "done"
    /\ procs.first = "rec" /\ procs.n > 0
    /\ procs.c0 = ConfigOpCreditCap
    /\ songs[1].credit_count = ConfigOpCreditCap
    /\ songs[1].play_count = 1
    /\ songs[1].last_played < credit_ts

====
